---- MODULE Spec2Model ----
(***************************************************************************)
(* Attendance ledger and reconciliation engine of the attendance backend:  *)
(* the QR scan handler, the administrative handlers, the three sweeps of   *)
(* the auto attendance service and the per-student documents they share.   *)
(*                                                                         *)
(* Time is counted in minutes since an arbitrary UTC midnight.  The host   *)
(* time zone is an input of the program (Date#setHours and toDateString    *)
(* are local, toISOString is UTC), so it is a variable fixed by Init.      *)
(***************************************************************************)
EXTENDS Integers, Sequences, FiniteSets

VARIABLES tz, now, store, req, sweep, timer, ops, ev, wa, db

vars == <<tz, now, store, req, sweep, timer, ops, ev, wa, db>>

(***************************************************************************)
(* Bounds of the model.                                                    *)
(***************************************************************************)
MaxDay == 2
MaxOps == 3

\* the student ids a request may name, and the students enrolled at the start
Students == {1, 2}
Enrolled == {1}
\* the requests that may be in flight at once
Requests == {1, 2}
\* the host's offset from UTC in minutes: UTC and Asia/Colombo
TimeZones == {0, 330}
\* local times of day at which the clock stops: 09:00 and 18:45
ClockPoints == <<540, 1125>>

(***************************************************************************)
(* Program constants.                                                      *)
(***************************************************************************)
DayMinutes == 1440
CutoffMinutes == 1110
TimerMinutes == 1125
PercentScale == 100
Null == -1
MAX_RETRIES == 3

StatusEnum == {"entered", "left", "present", "absent", "late"}
validStatus == {"entered", "left", "present", "absent"}
PresentLike == {"entered", "present"}

(***************************************************************************)
(* Calendar helpers.                                                       *)
(***************************************************************************)
\* the local calendar day a time falls in
LocalDay(t) == (t + tz) \div DayMinutes

\* Date#setHours(0, 0, 0, 0): local midnight of the day of t
LocalMidnight(t) == LocalDay(t) * DayMinutes - tz

\* date.toISOString().split('T')[0]: the UTC calendar day of t
IsoDate(t) == t \div DayMinutes

\* d = new Date(t); d.setHours(18, 30, 0, 0): 18:30 local on the day of t
SetHoursCutoff(t) == LocalMidnight(t) + CutoffMinutes

\* the local time of day of t
TimeOfDay(t) == (t + tz) % DayMinutes

(***************************************************************************)
(* Sequence helpers.                                                       *)
(***************************************************************************)
\* Array#findIndex: the first index whose element satisfies P, 0 when none
FindIndex(seq, P(_)) ==
  IF \E i \in 1..Len(seq) : P(seq[i])
  THEN CHOOSE i \in 1..Len(seq) : P(seq[i]) /\ \A j \in 1..(i - 1) : ~P(seq[j])
  ELSE 0

\* Array#filter(...).length
CountIf(seq, P(_)) == Cardinality({i \in 1..Len(seq) : P(seq[i])})

MaxOf(S) == CHOOSE x \in S : \A y \in S : y <= x

RemoveAt(seq, i) == [j \in 1..(Len(seq) - 1) |-> IF j < i THEN seq[j] ELSE seq[j + 1]]

(***************************************************************************)
(* Aggregates.                                                             *)
(***************************************************************************)
\* variant: a record with status left counts as present too
PresentRecordsWithLeft(hist) ==
  CountIf(hist, LAMBDA r : r.status \in PresentLike \cup {"left"})

\* attendanceHistory.filter(status === 'present' || status === 'entered').length
PresentRecords(hist) == CountIf(hist, LAMBDA r : r.status \in PresentLike)

\* (presentRecords / totalRecords) * 100, kept as the exact fraction n / d
\* (the rounding of the floating-point quotient is not represented)
AttendancePercentage(hist) ==
  IF Len(hist) > 0
  THEN [n |-> PresentRecords(hist) * PercentScale, d |-> Len(hist)]
  ELSE [n |-> 0, d |-> 1]

(***************************************************************************)
(* The scan handler's decision (students.controller.js, markAttendance).   *)
(***************************************************************************)
\* student.attendanceHistory.findIndex(entry => ISO day of entry.date === todayDate)
TodayAttendanceIndex(hist, t) == FindIndex(hist, LAMBDA r : IsoDate(r.date) = IsoDate(t))

\* variant: the decision looks at the newest record, whatever its day
StatusToSaveNewest(hist, t) ==
  LET i == Len(hist) IN
  IF i = 0 THEN "entered"
  ELSE IF hist[i].leaveTime # Null THEN "entered"
  ELSE IF hist[i].entryTime # Null THEN "left"
  ELSE "entered"

\* variant: a scan on a closed day is taken for another exit
StatusToSaveNoReopen(hist, t) ==
  LET i == TodayAttendanceIndex(hist, t) IN
  IF i = 0 THEN "entered"
  ELSE IF hist[i].leaveTime # Null THEN "left"
  ELSE IF hist[i].entryTime # Null THEN "left"
  ELSE "entered"

\* the if/else ladder that chooses statusToSave
StatusToSave(hist, t) ==
  LET i == TodayAttendanceIndex(hist, t) IN
  IF i = 0 THEN "entered"
  ELSE IF hist[i].leaveTime # Null THEN "entered"
  ELSE IF hist[i].entryTime # Null THEN "left"
  ELSE "entered"

\* the event kind reported to the caller: 'exit' for left, 'entry' otherwise
EventKind(status) == IF status = "left" THEN "EXIT" ELSE "ENTRY"

(***************************************************************************)
(* The student document's methods (models/student.model.js).  The file is  *)
(* not part of the sources at hand; the methods follow the specification:  *)
(* sections 3, 4.1 and 4.2.                                                *)
(***************************************************************************)
NoRec == [date |-> Null, status |-> "none", entryTime |-> Null, leaveTime |-> Null]

EmptyDoc == [hist |-> <<>>, attendanceCount |-> 0,
             attendancePercentage |-> [n |-> 0, d |-> 1], lastAttendance |-> Null]

\* variant: the day's record is looked up by its UTC day
DayIndexIso(hist, t) == FindIndex(hist, LAMBDA r : IsoDate(r.date) = IsoDate(t))

\* the record of the local calendar day of t, 0 when there is none
DayIndex(hist, t) == FindIndex(hist, LAMBDA r : LocalDay(r.date) = LocalDay(t))

DayRecord(hist, t) == IF DayIndex(hist, t) = 0 THEN NoRec ELSE hist[DayIndex(hist, t)]

\* a record created for the day of t with the requested status
NewRecord(status, t) ==
  [date |-> LocalMidnight(t), status |-> status,
   entryTime |-> IF status = "entered" THEN t ELSE Null,
   leaveTime |-> IF status = "left" THEN t ELSE Null]

\* the day's record after the requested status is applied at t
ApplyStatus(r, status, t) ==
  IF status = "entered"
  THEN IF r.leaveTime # Null
       THEN [r EXCEPT !.status = "entered", !.entryTime = t, !.leaveTime = Null]
       ELSE IF r.entryTime = Null
            THEN [r EXCEPT !.status = "entered", !.entryTime = t]
            ELSE [r EXCEPT !.status = "entered"]
  ELSE IF status = "left"
  THEN IF r.leaveTime = Null
       THEN [r EXCEPT !.status = "left", !.leaveTime = t]
       ELSE [r EXCEPT !.status = "left"]
  ELSE [r EXCEPT !.status = status]

LeaveTimes(hist) == {hist[i].leaveTime : i \in 1..Len(hist)} \ {Null}
EntryTimes(hist) == {hist[i].entryTime : i \in 1..Len(hist)} \ {Null}

\* lastAttendance after record i was touched
LastAttendance(hist, i, old) ==
  IF hist[i].leaveTime # Null THEN MaxOf(LeaveTimes(hist))
  ELSE IF hist[i].entryTime # Null THEN MaxOf(EntryTimes(hist))
  ELSE old

\* recompute(student): the derived fields from the whole history
Recompute(doc, hist, i) ==
  [hist |-> hist,
   attendanceCount |-> PresentRecords(hist),
   attendancePercentage |-> AttendancePercentage(hist),
   lastAttendance |-> IF i = 0 THEN doc.lastAttendance
                      ELSE LastAttendance(hist, i, doc.lastAttendance)]

\* student.markAttendance(status, adminId, deviceInfo, scanLocation) at time t
MarkAttendance(doc, status, t) ==
  LET i == DayIndex(doc.hist, t)
      hist == IF i = 0
              THEN Append(doc.hist, NewRecord(status, t))
              ELSE [doc.hist EXCEPT ![i] = ApplyStatus(doc.hist[i], status, t)]
      j == IF i = 0 THEN Len(hist) ELSE i
  IN Recompute(doc, hist, j)

\* student.deleteAttendanceRecord(recordId)
DeleteRecord(doc, i) == Recompute(doc, RemoveAt(doc.hist, i), 0)

\* student.clearAttendanceHistory()
ClearHistory(doc) == EmptyDoc

\* variant: a save writes the document over every student (an update
\* without a filter)
SaveEvery(st, s, doc) == [x \in DOMAIN st |-> doc]

\* variant: a save appends the document's records to the stored array
SaveMerge(st, s, doc) == [st EXCEPT ![s] = [doc EXCEPT !.hist = st[s].hist \o doc.hist]]

\* student.save(): the store keeps the whole document, last writer wins
Save(st, s, doc) == [st EXCEPT ![s] = doc]

(***************************************************************************)
(* State.                                                                  *)
(*   store  the persisted student documents                                *)
(*   req    the HTTP requests in flight, each with its in-memory document  *)
(*   sweep  the sweeps in flight, each with the documents its query found  *)
(*   timer  the scheduler: whether it was started, the targets of the      *)
(*          pending timeouts, the day of the last run of the timer's body  *)
(*   ops    the number of requests and sweeps started so far               *)
(*   ev     what the last step did (history variable)                      *)
(***************************************************************************)
Sweeps == {1}

\* two sweeps in flight at one time
SweepPair == {1, 2}

\* note is the outcome of the request's guardian notification so far
IdleReq == [pc |-> "idle", kind |-> "none", s |-> 0, copy |-> EmptyDoc,
            orig |-> EmptyDoc, raced |-> FALSE, note |-> "none"]

\* lookup: the loop waits for sendAttendanceNotification's read of the
\* student; sending: the loop waits for the answer of the client's send;
\* told are the closed records that message is about
IdleSweep == [pc |-> "idle", viaPrev |-> FALSE, today |-> 0, leaveTime |-> 0,
              queue |-> <<>>, failed |-> FALSE, again |-> FALSE,
              found |-> {}, handled |-> {}, lookup |-> FALSE,
              sending |-> FALSE, told |-> {}]

\* twice: the timer's body started more than once on one day; faulty: a
\* query of the scheduler's sweeps failed
NoTimer == [started |-> FALSE, armed |-> {}, lastRun |-> 0, twice |-> FALSE,
            faulty |-> FALSE]

\* code is the HTTP status of a response (0: the step answers no request),
\* note the outcome of a notification, closed the records a sweep closed and
\* saved in the step, told the closed records a notification that ended in
\* the step was about, before the stored document ahead of the write of a
\* scan that answered 500
NoEv == [op |-> "none", s |-> 0, status |-> "none", pre |-> NoRec, raced |-> FALSE,
         closed |-> {}, told |-> {}, done |-> FALSE, failed |-> FALSE, today |-> 0,
         code |-> 0, note |-> "none", before |-> EmptyDoc,
         threw |-> FALSE, again |-> FALSE, reloaded |-> FALSE, kind |-> "none"]

\* the WhatsApp module: the ready flag, who created the current client, the
\* message counters, the calls waiting for the client's send to answer, and
\* the call of resetQR or logout that waits for the current client to close
NoStats == [total |-> 0, successful |-> 0, failed |-> 0, pending |-> 0]
StartupClient == [ready |-> FALSE, maker |-> "startup", stats |-> NoStats,
                  flight |-> 0, closing |-> "none"]

\* the module once the startup client has emitted ready
ReadyClient == [StartupClient EXCEPT !.ready = TRUE]

\* the database connection of a process that serves requests
Connected == [pc |-> "connected", uri |-> "mongodb://", retryCount |-> 0,
              attempts |-> 1]

Init ==
  /\ tz \in TimeZones
  /\ now = DayMinutes + ClockPoints[1] - tz
  /\ store = [s \in Enrolled |-> EmptyDoc]
  /\ req = [p \in Requests |-> IdleReq]
  /\ sweep = [w \in Sweeps |-> IdleSweep]
  /\ timer = NoTimer
  /\ ops = 0
  /\ ev = NoEv
  /\ wa = StartupClient
  /\ db = Connected

(***************************************************************************)
(* The wall clock.                                                         *)
(***************************************************************************)
NextTime(t) ==
  LET later == {i \in 1..Len(ClockPoints) : ClockPoints[i] > TimeOfDay(t)} IN
  IF later # {}
  THEN LocalMidnight(t) + ClockPoints[CHOOSE i \in later : \A j \in later : i <= j]
  ELSE LocalMidnight(t) + DayMinutes + ClockPoints[1]

\* the clock points are hours apart and a store call ends within the driver's
\* socketTimeoutMS (45 s): requests and sweeps finish between two clock points
Tick ==
  /\ \A p \in Requests : req[p].pc = "idle"
  /\ \A w \in Sweeps : sweep[w].pc = "idle"
  /\ LocalDay(NextTime(now)) <= MaxDay
  /\ now' = NextTime(now)
  /\ ev' = NoEv
  /\ UNCHANGED <<wa, db, tz, timer, store, req, sweep, ops>>

(***************************************************************************)
(* The WhatsApp module: the client's events, resetQR, logout and            *)
(* sendTextMessage.                                                        *)
(***************************************************************************)
ClientEvents == {"ready", "auth_failure", "disconnected"}

\* the events of the ready flag a client has a handler for: resetQR registers
\* the qr and ready handlers only
Handlers(maker) ==
  IF maker = "resetQR" THEN {"ready"} ELSE {"ready", "auth_failure", "disconnected"}

\* the ready flag after the current client has emitted an event
OnEvent(flag, maker, kind) ==
  IF kind \in Handlers(maker) THEN kind = "ready" ELSE flag

Alive == db.pc # "exited"

ClientEvent(kind) ==
  /\ Alive
  /\ wa' = [wa EXCEPT !.ready = OnEvent(wa.ready, wa.maker, kind)]
  /\ ev' = [NoEv EXCEPT !.op = "event", !.kind = kind]
  /\ UNCHANGED <<db, tz, now, store, req, sweep, timer, ops>>

\* resetQR and logout up to their first wait: the flag is cleared and the
\* call waits for the current client to close (destroy, logout), with the
\* module still holding that client, whose events go on being handled; one
\* such call is followed at a time
Closing(maker) ==
  /\ Alive
  /\ wa.closing = "none"
  /\ wa' = [wa EXCEPT !.ready = FALSE, !.closing = maker]
  /\ ev' = [NoEv EXCEPT !.op = maker]
  /\ UNCHANGED <<db, tz, now, store, req, sweep, timer, ops>>

resetQR == Closing("resetQR")

logout == Closing("logout")

\* the old client has closed: resetQR or logout replaces the client by a new
\* one with the handlers it registers; the flag is left as it is
NewClient ==
  /\ Alive
  /\ wa.closing # "none"
  /\ wa' = [wa EXCEPT !.maker = wa.closing, !.closing = "none"]
  /\ ev' = [NoEv EXCEPT !.op = "replaced", !.kind = wa.closing]
  /\ UNCHANGED <<db, tz, now, store, req, sweep, timer, ops>>

\* the characters of the telephone numbers tried
Digits == {"0", "1", "4", "7", "9"}
Phones == {<<"0", "7", "1">>, <<"9", "4", "7">>, <<"+", "9", "4", "7">>,
           <<"7", "-", "1">>, <<>>}

\* the argument of a caller that passes undefined instead of a string
NoNumber == <<"undefined">>

\* the guardian's number of the students of the attendance handlers
GuardianPhone == <<"0", "7", "1">>

IsDigit(c) == c \in Digits

formatPhoneNumber(phoneNumber) ==
  LET digits == SelectSeq(phoneNumber, IsDigit)
      local == IF Len(digits) > 0 /\ digits[1] = "0"
               THEN <<"9", "4">> \o Tail(digits) ELSE digits
  IN IF Len(local) >= 2 /\ local[1] = "9" /\ local[2] = "4"
     THEN local ELSE <<"9", "4">> \o local

\* the counters when a call begins
Counted(stats) == [stats EXCEPT !.total = @ + 1, !.pending = @ + 1]

\* the counters when a call is accounted as sent or as failed
Settled(stats, ok) ==
  [stats EXCEPT !.pending = @ - 1,
                !.successful = @ + (IF ok THEN 1 ELSE 0),
                !.failed = @ + (IF ok THEN 0 ELSE 1)]

\* the counters when a call returns AUTH_LOST or INVALID_WID
SettledLost(stats) == stats

\* sendTextMessage up to its return or to the call of the client's send:
\* the module afterwards and the code returned, CALLED when the call waits
\* for the client; info is client.info
SendBegin(w, phone, info) ==
  LET stats == Counted(w.stats) IN
  IF ~w.ready
  THEN [wa |-> [w EXCEPT !.stats = Settled(stats, FALSE)], code |-> "CLIENT_NOT_READY"]
  ELSE IF phone = NoNumber
  THEN [wa |-> [w EXCEPT !.stats = Settled(stats, FALSE)], code |-> "GENERAL_ERROR"]
  ELSE IF Len(formatPhoneNumber(phone)) = 0
  THEN [wa |-> [w EXCEPT !.stats = Settled(stats, FALSE)], code |-> "INVALID_PHONE"]
  ELSE IF ~info
  THEN [wa |-> [w EXCEPT !.ready = FALSE, !.stats = SettledLost(stats)],
        code |-> "AUTH_LOST"]
  ELSE [wa |-> [w EXCEPT !.stats = stats, !.flight = @ + 1], code |-> "CALLED"]

SendOutcomes == {"sent", "wid", "error"}

\* sendTextMessage from the answer of the client's send to its return
SendEnd(w, outcome) ==
  IF outcome = "sent"
  THEN [wa |-> [w EXCEPT !.stats = Settled(w.stats, TRUE), !.flight = @ - 1],
        code |-> "OK"]
  ELSE IF outcome = "wid"
  THEN [wa |-> [w EXCEPT !.ready = FALSE, !.stats = SettledLost(w.stats),
                         !.flight = @ - 1],
        code |-> "INVALID_WID"]
  ELSE [wa |-> [w EXCEPT !.stats = Settled(w.stats, FALSE), !.flight = @ - 1],
        code |-> "SEND_ERROR"]

\* the calls in flight that a scan, a manual mark or a sweep waits for
Owned ==
  Cardinality({p \in Requests : req[p].pc = "sending"})
    + Cardinality({w \in DOMAIN sweep : sweep[w].sending})

\* a call of sendTextMessage by the messaging handlers
SendStart(phone, info) ==
  /\ Alive
  /\ wa.stats.total < MaxOps
  /\ LET r == SendBegin(wa, phone, info)
     IN /\ wa' = r.wa
        /\ ev' = [NoEv EXCEPT !.op = "send", !.note = r.code]
  /\ UNCHANGED <<db, tz, now, store, req, sweep, timer, ops>>

\* the client answers such a call
SendFinish(outcome) ==
  /\ Alive
  /\ wa.flight > Owned
  /\ LET r == SendEnd(wa, outcome)
     IN /\ wa' = r.wa
        /\ ev' = [NoEv EXCEPT !.op = "send", !.note = r.code]
  /\ UNCHANGED <<db, tz, now, store, req, sweep, timer, ops>>

MessagingNext ==
  \/ \E kind \in ClientEvents : ClientEvent(kind)
  \/ resetQR
  \/ logout
  \/ NewClient
  \/ \E phone \in Phones \cup {NoNumber}, info \in BOOLEAN : SendStart(phone, info)
  \/ \E outcome \in SendOutcomes : SendFinish(outcome)

Messaging == Init /\ [][MessagingNext]_vars

(***************************************************************************)
(* Requests: every handler first loads the student (Student.findById).     *)
(***************************************************************************)
\* the id of a request that names no student
NoId == 0

\* the request slot after the student was loaded
Loaded(s, kind, doc) ==
  [IdleReq EXCEPT !.pc = "read", !.kind = kind, !.s = s, !.copy = doc, !.orig = doc]

\* variant: a request for an unknown id enrols the student and goes on
LoadUpsert(p, s, kind, answered, genuine) ==
  /\ req[p].pc = "idle"
  /\ \A q \in Requests : q < p => req[q].pc # "idle"
  /\ ops < MaxOps
  /\ ops' = ops + 1
  /\ IF s = NoId
     THEN /\ req' = req
          /\ store' = store
          /\ ev' = [NoEv EXCEPT !.op = "rejected", !.s = s, !.code = 400,
                                !.kind = kind]
     ELSE IF ~answered
     THEN /\ req' = req
          /\ store' = store
          /\ ev' = [NoEv EXCEPT !.op = "readfailed", !.s = s, !.code = 500,
                                !.kind = kind, !.failed = TRUE,
                                !.before = IF s \in DOMAIN store THEN store[s]
                                           ELSE EmptyDoc]
     ELSE IF s \in DOMAIN store /\ kind = "scan" /\ ~genuine
     THEN /\ req' = req
          /\ store' = store
          /\ ev' = [NoEv EXCEPT !.op = "unauthorized", !.s = s, !.code = 401,
                                !.kind = kind]
     ELSE IF s \in DOMAIN store
     THEN /\ req' = [req EXCEPT ![p] = Loaded(s, kind, store[s])]
          /\ store' = store
          /\ ev' = NoEv
     ELSE /\ req' = [req EXCEPT ![p] = Loaded(s, kind, EmptyDoc)]
          /\ store' = [x \in DOMAIN store \cup {s} |->
                         IF x \in DOMAIN store THEN store[x] ELSE EmptyDoc]
          /\ ev' = [NoEv EXCEPT !.op = "notfound", !.s = s, !.code = 404,
                                !.kind = kind]
  /\ UNCHANGED <<wa, db, tz, timer, now, sweep>>

\* A request takes the lowest free slot; a request without an id ends with
\* 400 before the store is read; a read the store rejects (answered is
\* FALSE) reaches the handler's catch, which answers 500; an unknown id ends
\* the request with 404; a scan whose QR payload carries a secureHash that
\* does not match the student's (genuine is FALSE) ends with 401.
Load(p, s, kind, answered, genuine) ==
  /\ req[p].pc = "idle"
  /\ \A q \in Requests : q < p => req[q].pc # "idle"
  /\ ops < MaxOps
  /\ ops' = ops + 1
  /\ IF s = NoId
     THEN /\ req' = req
          /\ ev' = [NoEv EXCEPT !.op = "rejected", !.s = s, !.code = 400,
                                !.kind = kind]
     ELSE IF ~answered
     THEN /\ req' = req
          /\ ev' = [NoEv EXCEPT !.op = "readfailed", !.s = s, !.code = 500,
                                !.kind = kind, !.failed = TRUE,
                                !.before = IF s \in DOMAIN store THEN store[s]
                                           ELSE EmptyDoc]
     ELSE IF s \in DOMAIN store /\ kind = "scan" /\ ~genuine
     THEN /\ req' = req
          /\ ev' = [NoEv EXCEPT !.op = "unauthorized", !.s = s, !.code = 401,
                                !.kind = kind]
     ELSE IF s \in DOMAIN store
     THEN /\ req' = [req EXCEPT ![p] = Loaded(s, kind, store[s])]
          /\ ev' = NoEv
     ELSE /\ req' = req
          /\ ev' = [NoEv EXCEPT !.op = "notfound", !.s = s, !.code = 404,
                                !.kind = kind]
  /\ UNCHANGED <<wa, db, tz, timer, now, store, sweep>>

\* a scan that saves while another scan of the same student holds a document
\* it read earlier: the two scans overlap
Overlaps(rq, p, q) ==
  q # p /\ rq[q].pc = "read" /\ rq[q].kind = "scan" /\ rq[q].s = rq[p].s

MarkRaced(rq, p) ==
  [q \in Requests |->
     IF Overlaps(rq, p, q) \/ (q = p /\ \E o \in Requests : Overlaps(rq, p, o))
     THEN [rq[q] EXCEPT !.raced = TRUE]
     ELSE rq[q]]

\* markAttendance (QR scan): load the student and compare the secureHash
ScanRead(p, s, answered, genuine) == Load(p, s, "scan", answered, genuine)

\* markAttendance (QR scan): choose the status, mark, save; a save that
\* fails throws into the handler's catch, which answers 500.  With a guardian
\* phone the handler calls sendAttendanceNotification, which returns a
\* failure at once while the client is not ready and reads the student
\* otherwise; the handler then reads the student back.
ScanMark(p, ok, phone) ==
  /\ req[p].pc = "read" /\ req[p].kind = "scan"
  /\ LET s == req[p].s
         status == StatusToSave(req[p].copy.hist, now)
         doc == MarkAttendance(req[p].copy, status, now)
         note == IF ~phone THEN "nophone"
                 ELSE IF ~wa.ready THEN "failed" ELSE "none"
     IN IF ok
        THEN /\ store' = Save(store, s, doc)
             /\ req' = [MarkRaced(req, p) EXCEPT
                          ![p].pc = IF phone /\ wa.ready THEN "lookup" ELSE "reload",
                          ![p].copy = doc, ![p].orig = store[s], ![p].note = note]
             /\ ev' = [NoEv EXCEPT !.op = "scan", !.s = s, !.status = status,
                                   !.pre = DayRecord(req[p].copy.hist, now),
                                   !.raced = MarkRaced(req, p)[p].raced,
                                   !.note = note, !.kind = "scan"]
        ELSE /\ store' = store
             /\ req' = [req EXCEPT ![p] = IdleReq]
             /\ ev' = [NoEv EXCEPT !.op = "scanfailed", !.s = s, !.status = status,
                                   !.code = 500, !.before = store[s], !.kind = "scan"]
  /\ UNCHANGED <<wa, db, tz, timer, now, sweep, ops>>

\* the request after its message ended with the given outcome: the scan
\* logs a sent message on its student and saves it again, and reads the
\* student back otherwise; the manual mark answers whatever the outcome;
\* the messaging handlers log a sent message on the student they loaded
\* and save it, and answer at once otherwise (also when the message went to
\* a number of the request and no student was loaded)
AfterNotification(r, sent) ==
  IF r.kind = "manual" THEN IdleReq
  ELSE IF r.kind = "scan"
  THEN [r EXCEPT !.pc = IF sent THEN "saving" ELSE "reload",
                 !.note = IF sent THEN "sent" ELSE "failed"]
  ELSE IF sent /\ r.s # NoId THEN [r EXCEPT !.pc = "saving", !.note = "sent"]
  ELSE IdleReq

\* the status a handler answers with when its message has ended and the
\* request ends with it, 0 when the request goes on
NotificationCode(r, sent) ==
  IF r.kind = "manual" THEN 200
  ELSE IF r.kind = "message" /\ ~sent THEN 400
  ELSE IF r.kind = "message" /\ r.s = NoId THEN 200
  ELSE IF r.kind = "bulk" /\ ~sent THEN 200
  ELSE 0

\* sendAttendanceNotification, from the answer of its read of the student to
\* the call of the client's send: known says that the student read has a
\* guardian phone; without one, and when sendTextMessage returns before it
\* calls the client, the caller gets a failure result
SendAttendanceNotification(p, known, info) ==
  /\ req[p].pc = "lookup"
  /\ LET r == IF known THEN SendBegin(wa, GuardianPhone, info)
              ELSE [wa |-> wa, code |-> "NO_PHONE_NUMBER"]
         called == r.code = "CALLED"
     IN /\ wa' = r.wa
        /\ req' = [req EXCEPT ![p] = IF called THEN [@ EXCEPT !.pc = "sending"]
                                     ELSE AfterNotification(@, FALSE)]
        /\ ev' = [NoEv EXCEPT !.op = "lookup", !.s = req[p].s, !.kind = req[p].kind,
                              !.raced = req[p].raced,
                              !.note = IF called THEN "pending" ELSE "failed",
                              !.code = IF called THEN 0
                                       ELSE NotificationCode(req[p], FALSE)]
  /\ UNCHANGED <<db, tz, timer, now, store, sweep, ops>>

\* the client answers the send of a request's notification
NotificationAnswered(p, outcome) ==
  /\ req[p].pc = "sending"
  /\ LET r == SendEnd(wa, outcome)
         sent == r.code = "OK"
     IN /\ wa' = r.wa
        /\ req' = [req EXCEPT ![p] = AfterNotification(@, sent)]
        /\ ev' = [NoEv EXCEPT !.op = "answered", !.s = req[p].s, !.kind = req[p].kind,
                              !.raced = req[p].raced,
                              !.note = IF sent THEN "sent" ELSE "failed",
                              !.code = NotificationCode(req[p], sent)]
  /\ UNCHANGED <<db, tz, timer, now, store, sweep, ops>>

\* markAttendance (QR scan): the save of the student with the message
\* logged; a failure of that save is caught with the notification's errors
\* and turns the notification's result into a failure
ScanSave(p, saved) ==
  /\ req[p].pc = "saving" /\ req[p].kind = "scan"
  /\ store' = IF saved THEN Save(store, req[p].s, req[p].copy) ELSE store
  /\ req' = [req EXCEPT ![p].pc = "reload",
                        ![p].note = IF saved THEN "sent" ELSE "failed"]
  /\ ev' = [NoEv EXCEPT !.op = "resave", !.s = req[p].s, !.kind = "scan",
                        !.raced = req[p].raced, !.failed = ~saved,
                        !.note = IF saved THEN "sent" ELSE "failed"]
  /\ UNCHANGED <<wa, db, tz, timer, now, sweep, ops>>

\* variant: a scan whose notification failed answers 500
ScanResponseStrict(reloaded, note) ==
  IF reloaded /\ note # "failed" THEN 200 ELSE 500

\* the status of the scan handler's response: it reads the student back
\* before it answers, and a failure of that read reaches the outer catch;
\* the notification's outcome is reported in the body only
ScanResponse(reloaded, note) == IF reloaded THEN 200 ELSE 500

\* markAttendance (QR scan): the read of the updated student and the response
ScanAnswer(p, reloaded) ==
  /\ req[p].pc = "reload"
  /\ ev' = [NoEv EXCEPT !.op = "answer", !.s = req[p].s, !.kind = "scan",
                        !.raced = req[p].raced, !.note = req[p].note,
                        !.code = ScanResponse(reloaded, req[p].note),
                        !.reloaded = reloaded,
                        !.before = IF reloaded THEN EmptyDoc ELSE req[p].orig]
  /\ req' = [req EXCEPT ![p] = IdleReq]
  /\ UNCHANGED <<wa, db, tz, timer, now, store, sweep, ops>>

\* markStudentAttendance (manual override): load the student
ManualRead(p, s, answered) == Load(p, s, "manual", answered, TRUE)

\* markStudentAttendance (manual override): validate the status, mark and
\* save; notify says that the request does not decline the notification and
\* the student has a guardian phone.  sendAttendanceNotification returns at
\* once while the client is not ready; the handler answers 200 as soon as
\* the notification has returned, whatever its result.
ManualMark(p, status, ok, notify) ==
  /\ req[p].pc = "read" /\ req[p].kind = "manual"
  /\ LET s == req[p].s
         doc == MarkAttendance(req[p].copy, status, now)
         waits == notify /\ wa.ready
     IN IF status \notin validStatus
        THEN /\ store' = store
             /\ req' = [req EXCEPT ![p] = IdleReq]
             /\ ev' = [NoEv EXCEPT !.op = "rejected", !.s = s, !.status = status,
                                   !.code = 400, !.kind = "manual"]
        ELSE IF ~ok
        THEN /\ store' = store
             /\ req' = [req EXCEPT ![p] = IdleReq]
             /\ ev' = [NoEv EXCEPT !.op = "manualfailed", !.s = s, !.status = status,
                                   !.code = 500, !.kind = "manual"]
        ELSE /\ store' = Save(store, s, doc)
             /\ req' = [req EXCEPT ![p] = IF waits
                                          THEN [@ EXCEPT !.pc = "lookup", !.copy = doc]
                                          ELSE IdleReq]
             /\ ev' = [NoEv EXCEPT !.op = "manual", !.s = s, !.status = status,
                                   !.pre = DayRecord(req[p].copy.hist, now),
                                   !.code = IF waits THEN 0 ELSE 200,
                                   !.note = IF notify /\ ~waits THEN "failed" ELSE "none",
                                   !.kind = "manual"]
  /\ UNCHANGED <<wa, db, tz, timer, now, sweep, ops>>

\* deleteAttendanceRecord: load the student
DeleteRead(p, s, answered) == Load(p, s, "delete", answered, TRUE)

\* deleteAttendanceRecord: remove the record with the given id, recompute,
\* save; whatever the model method throws, a failing save included, is
\* answered with 404
DeleteApply(p, i, ok) ==
  /\ req[p].pc = "read" /\ req[p].kind = "delete"
  /\ i \in 1..Len(req[p].copy.hist)
  /\ store' = IF ok THEN Save(store, req[p].s, DeleteRecord(req[p].copy, i)) ELSE store
  /\ req' = [req EXCEPT ![p] = IdleReq]
  /\ ev' = [NoEv EXCEPT !.op = IF ok THEN "delete" ELSE "deletefailed",
                        !.s = req[p].s, !.kind = "delete",
                        !.code = IF ok THEN 200 ELSE 404]
  /\ UNCHANGED <<wa, db, tz, timer, now, sweep, ops>>

\* deleteAttendanceRecord: no record has the given id (404)
DeleteMissing(p) ==
  /\ req[p].pc = "read" /\ req[p].kind = "delete"
  /\ req' = [req EXCEPT ![p] = IdleReq]
  /\ ev' = [NoEv EXCEPT !.op = "rejected", !.s = req[p].s, !.kind = "delete",
                        !.code = 404]
  /\ UNCHANGED <<wa, db, tz, timer, now, store, sweep, ops>>

\* clearStudentAttendanceHistory: load the student
ClearRead(p, s, answered) == Load(p, s, "clear", answered, TRUE)

\* clearStudentAttendanceHistory: empty the history, reset the derived
\* fields, save; a failing save reaches the handler's catch (500)
ClearApply(p, ok) ==
  /\ req[p].pc = "read" /\ req[p].kind = "clear"
  /\ store' = IF ok THEN Save(store, req[p].s, ClearHistory(req[p].copy)) ELSE store
  /\ req' = [req EXCEPT ![p] = IdleReq]
  /\ ev' = [NoEv EXCEPT !.op = IF ok THEN "clear" ELSE "clearfailed",
                        !.s = req[p].s, !.kind = "clear",
                        !.code = IF ok THEN 200 ELSE 500]
  /\ UNCHANGED <<wa, db, tz, timer, now, sweep, ops>>

(***************************************************************************)
(* The reconciliation sweeps (services/autoAttendanceService.js).          *)
(***************************************************************************)
\* the documents of the students a query matches, in store order
RECURSIVE Ascending(_)
Ascending(S) ==
  IF S = {} THEN <<>>
  ELSE LET s == CHOOSE x \in S : \A y \in S : x <= y
       IN <<s>> \o Ascending(S \ {s})

Found(S, Match(_)) ==
  LET ids == Ascending({s \in S : Match(store[s].hist)})
  IN [i \in 1..Len(ids) |-> [s |-> ids[i], doc |-> store[ids[i]]]]

Some(hist, P(_)) == \E i \in 1..Len(hist) : P(hist[i])

\* variant: every record with an entry is taken for unfinished
UnfinishedEntered(r) == r.entryTime # Null

\* the sweeps' filter on a record: status entered or present, no leaveTime
Unfinished(r) == r.status \in PresentLike /\ r.leaveTime = Null

\* checkAllPastAttendance: the $elemMatch query, one record meets all three
PastQuery(hist, today) == Some(hist, LAMBDA r : r.date < today /\ Unfinished(r))

\* autoMarkLeaveAttendance and checkPreviousDayAttendance: a query of dotted
\* paths, each condition may be met by a different record of the array
RangeQuery(hist, from, to) ==
  /\ Some(hist, LAMBDA r : r.date >= from)
  /\ Some(hist, LAMBDA r : r.date < to)
  /\ Some(hist, LAMBDA r : r.status \in PresentLike)
  /\ Some(hist, LAMBDA r : r.leaveTime = Null)

\* variant: the loop closes every unfinished record, today's included
IncompleteAnyDay(hist, today) == {i \in 1..Len(hist) : Unfinished(hist[i])}

\* variant: the loop leaves yesterday's records to the previous-day check
IncompleteBeforeYesterday(hist, today) ==
  {i \in 1..Len(hist) : hist[i].date < today - DayMinutes /\ Unfinished(hist[i])}

\* checkAllPastAttendance: the records the loop closes
IncompleteRecords(hist, today) ==
  {i \in 1..Len(hist) : hist[i].date < today /\ Unfinished(hist[i])}

\* variant: the cutoff of the day the sweep runs on
PastLeaveTimeOfRun(r, today) == SetHoursCutoff(today)

\* checkAllPastAttendance: leaveTime = new Date(record.date); setHours(18, 30)
PastLeaveTime(r, today) == SetHoursCutoff(r.date)

\* [...incompleteRecords].sort((a, b) => b.date - a.date)[0]
LastRecord(hist, inc) ==
  CHOOSE i \in inc : /\ \A j \in inc : hist[j].date <= hist[i].date
                     /\ \A j \in inc : hist[j].date = hist[i].date => i <= j

\* the in-memory document after the sweep closed the records in idx; the
\* sweeps set lastAttendance and attendancePercentage and nothing else
SweepClose(doc, idx, leave(_), last) ==
  LET hist == [i \in 1..Len(doc.hist) |->
                 IF i \in idx
                 THEN [doc.hist[i] EXCEPT !.leaveTime = leave(doc.hist[i]), !.status = "left"]
                 ELSE doc.hist[i]]
  IN [doc EXCEPT !.hist = hist,
                 !.lastAttendance = hist[last].leaveTime,
                 !.attendancePercentage = AttendancePercentage(hist)]

\* variant: the guardian is notified before the save is known to succeed
AttemptedBeforeSave(closing, ok, phone) == closing /\ phone

\* whether a pass of the loop calls sendTextMessage: once for the student,
\* after the awaited save of a closure, when a guardian phone is known
Attempted(closing, ok, phone) == closing /\ ok /\ phone

\* variant: an error in one student's pass ends the loop
RemainingUntilError(queue, thrown) == IF thrown THEN <<>> ELSE Tail(queue)

\* the students still to process after one pass of the loop: the try/catch
\* is inside the loop, which goes on with the next student
Remaining(queue, thrown) == Tail(queue)

\* variant: a notification that fails ends the loop
AfterNoticeUntilFailure(queue, sent) == IF sent THEN Tail(queue) ELSE <<>>

\* the students still to process after the notification of a pass returned:
\* its result is logged and the loop goes on
AfterNotice(queue, sent) == Tail(queue)

\* scheduleAutoMarkAttendance: the target is 18:45 of the current day, and
\* of the next day when the clock is past it
NextTarget(t) ==
  LET targetTime == LocalMidnight(t) + TimerMinutes
  IN IF t > targetTime THEN targetTime + DayMinutes ELSE targetTime

\* the clock scheduleAutoMarkAttendance reads when the timer's callback sets
\* the timer again: the callback may run in the millisecond of its target and
\* the body may return within it, so the clock is past the target that fired
\* (late) or still equal to it
AfterBody(t, late) == IF late THEN t + 1 ELSE t

\* scheduleAutoMarkAttendance() after the try/catch around the timer's body:
\* a new timeout for the next target, whether the body returned or threw
Rearmed(tm, t, finished, thrown) ==
  IF tm.started /\ finished
  THEN [tm EXCEPT !.armed = @ \cup {NextTarget(t)}]
  ELSE tm

\* a run that directly follows a complete run of the same sweep
Again(op) == ev.op = op /\ ev.done /\ ~ev.failed /\ ~ev.threw

\* a sweep's query failed: the sweep logs the error and throws
SweepThrows(w, op, today) ==
  /\ sweep' = [sweep EXCEPT ![w] = [IdleSweep EXCEPT !.today = today, !.failed = TRUE]]
  /\ ev' = [NoEv EXCEPT !.op = op, !.done = TRUE, !.failed = TRUE, !.threw = TRUE,
                        !.today = today, !.again = Again(op)]

\* one pass of a sweep's loop up to its first wait that is not the save:
\* the head of the queue is closed and saved (or skipped), the save succeeds
\* or throws into the loop's catch; after a save, with a guardian phone,
\* sendTextMessage is called, which returns a failure at once or calls the
\* client's send and waits for its answer
SweepStudent(w, idx, leave(_), last, ok, phone, info, next, op) ==
  LET item == Head(sweep[w].queue)
      doc == SweepClose(item.doc, idx, leave, last)
      thrown == idx # {} /\ ~ok
      saved == idx # {} /\ ok
      records == {doc.hist[i] : i \in idx}
      attempted == Attempted(idx # {}, ok, phone)
      r == IF attempted THEN SendBegin(wa, GuardianPhone, info)
           ELSE [wa |-> wa, code |-> "NONE"]
      called == r.code = "CALLED"
      rest == IF called THEN sweep[w].queue
              ELSE IF attempted THEN AfterNotice(sweep[w].queue, FALSE)
              ELSE Remaining(sweep[w].queue, thrown)
  IN /\ ~sweep[w].sending
     /\ store' = IF saved THEN Save(store, item.s, doc) ELSE store
     /\ wa' = r.wa
     /\ sweep' = [sweep EXCEPT ![w].queue = rest,
                               ![w].failed = @ \/ thrown,
                               ![w].handled = IF called THEN @ ELSE @ \cup {item.s},
                               ![w].pc = IF rest = <<>> THEN next ELSE @,
                               ![w].sending = called,
                               ![w].told = IF called THEN records ELSE {}]
     /\ ev' = [NoEv EXCEPT !.op = op, !.s = item.s,
                           !.closed = IF saved THEN records ELSE {},
                           !.told = IF attempted /\ ~called THEN records ELSE {},
                           !.note = IF called THEN "pending"
                                    ELSE IF attempted THEN "failed"
                                    ELSE IF saved THEN "nophone" ELSE "none",
                           !.done = (rest = <<>>),
                           !.failed = sweep'[w].failed,
                           !.today = sweep[w].today,
                           !.again = sweep[w].again]
     /\ UNCHANGED <<db, tz, now, req, ops>>

\* the sweep a loop belongs to, and where it goes when the loop has ended
SweepOf(w) == sweep[w].pc

AfterLoop(w) == IF sweep[w].pc = "backlog" /\ sweep[w].viaPrev THEN "between" ELSE "idle"

\* the client answers the send of a pass: sendTextMessage returns, the
\* result is logged and the loop goes on with the next student; the end of
\* a body the timer started sets the timer again
SweepNotified(w, outcome, late) ==
  /\ sweep[w].sending
  /\ LET item == Head(sweep[w].queue)
         r == SendEnd(wa, outcome)
         sent == r.code = "OK"
         rest == AfterNotice(sweep[w].queue, sent)
     IN /\ wa' = r.wa
        /\ sweep' = [sweep EXCEPT ![w].queue = rest,
                                  ![w].handled = @ \cup {item.s},
                                  ![w].pc = IF rest = <<>> THEN AfterLoop(w) ELSE @,
                                  ![w].sending = FALSE,
                                  ![w].told = {}]
        /\ ev' = [NoEv EXCEPT !.op = SweepOf(w), !.s = item.s,
                              !.told = sweep[w].told,
                              !.note = IF sent THEN "sent" ELSE "failed",
                              !.code = IF sweep[w].pc = "checkout" /\ rest = <<>>
                                       THEN 200 ELSE 0,
                              !.done = (rest = <<>>),
                              !.failed = sweep[w].failed,
                              !.today = sweep[w].today,
                              !.again = sweep[w].again]
        /\ timer' = IF sweep[w].pc = "cutoff"
                    THEN Rearmed(timer, AfterBody(now, late), rest = <<>>, FALSE)
                    ELSE timer
  /\ UNCHANGED <<db, tz, now, store, req, ops>>

\* the ids of the students a query found
Ids(students) == {students[i].s : i \in 1..Len(students)}

\* checkAllPastAttendance: today, the query, and the return when it is empty.
\* It runs when the server starts (startScheduler) and as the first half of
\* the administrator's previous-day check (viaPrev), at any time of day.
BacklogFound(w, viaPrev, today, answered) ==
  LET students == Found(DOMAIN store, LAMBDA h : PastQuery(h, today))
  IN IF answered
     THEN /\ sweep' = [sweep EXCEPT ![w] =
                         [IdleSweep EXCEPT
                            !.pc = IF students # <<>> THEN "backlog"
                                   ELSE IF viaPrev THEN "between" ELSE "idle",
                            !.viaPrev = viaPrev, !.today = today,
                            !.queue = students,
                            !.again = Again("backlog"),
                            !.found = Ids(students)]]
          /\ ev' = [NoEv EXCEPT !.op = "backlog", !.done = (students = <<>>),
                                !.today = today, !.again = Again("backlog")]
     ELSE SweepThrows(w, "backlog", today)

BacklogQuery(w, viaPrev, answered) ==
  BacklogFound(w, viaPrev, LocalMidnight(now), answered)

BacklogStart(w, viaPrev, answered) ==
  /\ sweep[w].pc = "idle"
  /\ ops < MaxOps
  /\ ops' = ops + 1
  /\ BacklogQuery(w, viaPrev, answered)
  /\ UNCHANGED <<wa, db, tz, timer, now, store, req>>

\* checkAllPastAttendance: the loop body for one student
BacklogStudent(w, ok, phone, info) ==
  /\ sweep[w].pc = "backlog"
  /\ LET hist == Head(sweep[w].queue).doc.hist
         inc == IncompleteRecords(hist, sweep[w].today)
     IN SweepStudent(w, inc, LAMBDA r : PastLeaveTime(r, sweep[w].today),
                     IF inc = {} THEN 0 ELSE LastRecord(hist, inc), ok, phone, info,
                     AfterLoop(w), "backlog")
  /\ UNCHANGED timer

\* checkPreviousDayAttendance, after checkAllPastAttendance returned:
\* yesterday's range, the query, and the return when it is empty.  The
\* range ends at 23:59:59.999 exclusive: at the minute resolution of the
\* clock every record of yesterday is below it.
PrevDayStart(w, answered) ==
  /\ sweep[w].pc = "between"
  /\ LET yesterday == LocalMidnight(now) - DayMinutes
         yesterdayEnd == yesterday + DayMinutes
         students == Found(DOMAIN store, LAMBDA h : RangeQuery(h, yesterday, yesterdayEnd))
     IN IF answered
        THEN /\ sweep' = [sweep EXCEPT ![w].pc = IF students # <<>> THEN "prevday" ELSE "idle",
                                       ![w].today = yesterday,
                                       ![w].leaveTime = SetHoursCutoff(yesterday),
                                       ![w].queue = students,
                                       ![w].again = FALSE,
                                       ![w].found = Ids(students),
                                       ![w].handled = {}]
             /\ ev' = [NoEv EXCEPT !.op = "prevday", !.done = (students = <<>>),
                                   !.failed = sweep[w].failed, !.today = yesterday]
        ELSE SweepThrows(w, "prevday", yesterday)
  /\ UNCHANGED <<wa, db, tz, timer, now, store, req, ops>>

\* checkPreviousDayAttendance: yesterday's unfinished record of a student
PrevDayIndex(hist, yesterday) ==
  FindIndex(hist, LAMBDA r : /\ r.date >= yesterday
                             /\ r.date < yesterday + DayMinutes
                             /\ Unfinished(r))

\* checkPreviousDayAttendance: the loop body for one student
PrevDayStudent(w, ok, phone, info) ==
  /\ sweep[w].pc = "prevday"
  /\ LET i == PrevDayIndex(Head(sweep[w].queue).doc.hist, sweep[w].today)
     IN SweepStudent(w, IF i = 0 THEN {} ELSE {i}, LAMBDA r : sweep[w].leaveTime,
                     i, ok, phone, info, "idle", "prevday")
  /\ UNCHANGED timer

\* autoMarkLeaveAttendance: today, the query, the cutoff time 18:30 of the
\* current day, and the return when nothing is found
CutoffFound(w, today, answered) ==
  LET students == Found(DOMAIN store, LAMBDA h : RangeQuery(h, today, today + DayMinutes))
  IN IF answered
     THEN /\ sweep' = [sweep EXCEPT ![w] =
                         [IdleSweep EXCEPT
                            !.pc = IF students # <<>> THEN "cutoff" ELSE "idle",
                            !.today = today,
                            !.leaveTime = SetHoursCutoff(now),
                            !.queue = students,
                            !.again = Again("cutoff"),
                            !.found = Ids(students)]]
          /\ ev' = [NoEv EXCEPT !.op = "cutoff", !.done = (students = <<>>),
                                !.today = today, !.again = Again("cutoff")]
     ELSE SweepThrows(w, "cutoff", today)

CutoffQuery(w, answered) == CutoffFound(w, LocalMidnight(now), answered)

\* autoMarkLeaveAttendance, run by the daily timer; the scheduler itself is
\* left out here: the body may start whenever the clock shows 18:45
CutoffStart(w, answered) ==
  /\ sweep[w].pc = "idle"
  /\ ~timer.started
  /\ TimeOfDay(now) = TimerMinutes
  /\ ops < MaxOps
  /\ ops' = ops + 1
  /\ CutoffQuery(w, answered)
  /\ UNCHANGED <<wa, db, tz, timer, now, store, req>>

\* autoMarkLeaveAttendance: today's unfinished record of a student
CutoffIndex(hist, today) ==
  FindIndex(hist, LAMBDA r : LocalDay(r.date) = LocalDay(today) /\ Unfinished(r))

\* autoMarkLeaveAttendance: the loop body for one student; when the body was
\* started by the timer its end sets the timer again
CutoffStudent(w, ok, phone, info, late) ==
  /\ sweep[w].pc = "cutoff"
  /\ LET i == CutoffIndex(Head(sweep[w].queue).doc.hist, sweep[w].today)
     IN SweepStudent(w, IF i = 0 THEN {} ELSE {i}, LAMBDA r : sweep[w].leaveTime,
                     i, ok, phone, info, "idle", "cutoff")
  /\ timer' = Rearmed(timer, AfterBody(now, late), sweep'[w].pc = "idle", FALSE)

(***************************************************************************)
(* Administration: the handlers outside the ledger engine that write       *)
(* student documents as well: the auto checkout, the messages to students  *)
(* and the profile update.                                                 *)
(***************************************************************************)
\* runAutoCheckout: the query of dotted paths, each condition may be met by
\* a different record of the array
CheckoutQuery(hist, today) ==
  /\ Some(hist, LAMBDA r : r.date >= today)
  /\ Some(hist, LAMBDA r : r.status = "entered")
  /\ Some(hist, LAMBDA r : r.leaveTime = Null)

\* runAutoCheckout: today's record of a student that is entered and open
CheckoutIndex(hist, today) ==
  FindIndex(hist, LAMBDA r : /\ LocalMidnight(r.date) = today
                             /\ r.status = "entered" /\ r.leaveTime = Null)

\* runAutoCheckout: today, the query, and the response when nothing is
\* found (200) or the query fails (500); it runs whenever it is requested
CheckoutStart(w, answered) ==
  /\ sweep[w].pc = "idle"
  /\ ops < MaxOps
  /\ ops' = ops + 1
  /\ LET today == LocalMidnight(now)
         students == Found(DOMAIN store, LAMBDA h : CheckoutQuery(h, today))
     IN IF answered
        THEN /\ sweep' = [sweep EXCEPT ![w] =
                            [IdleSweep EXCEPT
                               !.pc = IF students # <<>> THEN "checkout" ELSE "idle",
                               !.today = today, !.queue = students,
                               !.found = Ids(students)]]
             /\ ev' = [NoEv EXCEPT !.op = "checkout", !.done = (students = <<>>),
                                   !.code = IF students = <<>> THEN 200 ELSE 0,
                                   !.today = today]
        ELSE /\ sweep' = sweep
             /\ ev' = [NoEv EXCEPT !.op = "checkout", !.done = TRUE, !.failed = TRUE,
                                   !.threw = TRUE, !.code = 500, !.today = today]
  /\ UNCHANGED <<wa, db, tz, timer, now, store, req>>

\* runAutoCheckout: the loop body for one student: today's open record is
\* marked left at the current time through student.markAttendance, which
\* saves; notify says that the settings ask for a notification and the
\* student has a guardian phone.  sendAttendanceNotification returns at once
\* while the client is not ready and reads the student otherwise.  The
\* handler answers 200 after the last student.
CheckoutStudent(w, ok, notify) ==
  /\ sweep[w].pc = "checkout"
  /\ ~sweep[w].lookup /\ ~sweep[w].sending
  /\ LET item == Head(sweep[w].queue)
         i == CheckoutIndex(item.doc.hist, sweep[w].today)
         doc == MarkAttendance(item.doc, "left", now)
         saved == i # 0 /\ ok
         waits == saved /\ notify /\ wa.ready
         rest == IF waits THEN sweep[w].queue ELSE Tail(sweep[w].queue)
     IN /\ store' = IF saved THEN Save(store, item.s, doc) ELSE store
        /\ sweep' = [sweep EXCEPT ![w].queue = rest,
                                  ![w].failed = @ \/ (i # 0 /\ ~ok),
                                  ![w].handled = IF waits THEN @ ELSE @ \cup {item.s},
                                  ![w].pc = IF rest = <<>> THEN "idle" ELSE @,
                                  ![w].lookup = waits]
        /\ ev' = [NoEv EXCEPT !.op = "checkout", !.s = item.s,
                              !.status = IF saved THEN "left" ELSE "none",
                              !.note = IF saved /\ notify /\ ~waits THEN "failed" ELSE "none",
                              !.done = (rest = <<>>),
                              !.failed = sweep'[w].failed,
                              !.code = IF rest = <<>> THEN 200 ELSE 0,
                              !.today = sweep[w].today]
  /\ UNCHANGED <<wa, db, tz, timer, now, req, ops>>

\* runAutoCheckout: sendAttendanceNotification from the answer of its read
\* of the student to the call of the client's send
CheckoutNotification(w, known, info) ==
  /\ sweep[w].pc = "checkout" /\ sweep[w].lookup
  /\ LET item == Head(sweep[w].queue)
         r == IF known THEN SendBegin(wa, GuardianPhone, info)
              ELSE [wa |-> wa, code |-> "NO_PHONE_NUMBER"]
         called == r.code = "CALLED"
         rest == IF called THEN sweep[w].queue ELSE Tail(sweep[w].queue)
     IN /\ wa' = r.wa
        /\ sweep' = [sweep EXCEPT ![w].queue = rest,
                                  ![w].handled = IF called THEN @ ELSE @ \cup {item.s},
                                  ![w].pc = IF rest = <<>> THEN "idle" ELSE @,
                                  ![w].lookup = FALSE,
                                  ![w].sending = called]
        /\ ev' = [NoEv EXCEPT !.op = "checkout", !.s = item.s,
                              !.note = IF called THEN "pending" ELSE "failed",
                              !.done = (rest = <<>>),
                              !.failed = sweep[w].failed,
                              !.code = IF rest = <<>> THEN 200 ELSE 0,
                              !.today = sweep[w].today]
  /\ UNCHANGED <<db, tz, timer, now, store, req, ops>>

MessageKinds == {"message", "bulk"}

\* sendMessageToStudent, and adminSendBulkMessages for one student id: 503
\* while the client is not ready, then the load of the student; the request
\* without an id is one that names no phoneNumber either
MessageRead(p, s, kind, answered) ==
  IF wa.ready THEN Load(p, s, kind, answered, TRUE)
  ELSE /\ req[p].pc = "idle"
       /\ \A q \in Requests : q < p => req[q].pc # "idle"
       /\ ops < MaxOps
       /\ ops' = ops + 1
       /\ ev' = [NoEv EXCEPT !.op = "rejected", !.s = s, !.code = 503, !.kind = kind]
       /\ UNCHANGED <<wa, db, tz, timer, now, store, req, sweep>>

\* sendMessageToStudent with a phoneNumber and no studentId: no student is
\* read, sendTextMessage is called with the request's number in the turn of
\* the request; 503 while the client is not ready, 400 when sendTextMessage
\* returns a failure before it calls the client
MessageDirect(p, info) ==
  /\ req[p].pc = "idle"
  /\ \A q \in Requests : q < p => req[q].pc # "idle"
  /\ ops < MaxOps
  /\ ops' = ops + 1
  /\ LET r == IF wa.ready THEN SendBegin(wa, GuardianPhone, info)
              ELSE [wa |-> wa, code |-> "NOT_READY"]
         called == r.code = "CALLED"
     IN /\ wa' = r.wa
        /\ req' = [req EXCEPT ![p] =
                     IF called THEN [Loaded(NoId, "message", EmptyDoc)
                                       EXCEPT !.pc = "sending"]
                     ELSE IdleReq]
        /\ ev' = IF wa.ready
                 THEN [NoEv EXCEPT !.op = "lookup", !.s = NoId, !.kind = "message",
                                   !.note = IF called THEN "pending" ELSE "failed",
                                   !.code = IF called THEN 0 ELSE 400]
                 ELSE [NoEv EXCEPT !.op = "rejected", !.s = NoId, !.code = 503,
                                   !.kind = "message"]
  /\ UNCHANGED <<db, tz, timer, now, store, sweep>>

\* the messaging handlers: 400 when neither the request nor the student has
\* a phone number (phone is FALSE), sendTextMessage otherwise; when it
\* returns a failure sendMessageToStudent answers 400 and
\* adminSendBulkMessages 200
MessageSend(p, phone, info) ==
  /\ req[p].pc = "read" /\ req[p].kind \in MessageKinds
  /\ LET r == IF phone THEN SendBegin(wa, GuardianPhone, info)
              ELSE [wa |-> wa, code |-> "NO_RECIPIENT"]
         called == r.code = "CALLED"
     IN /\ wa' = r.wa
        /\ req' = [req EXCEPT ![p] = IF called THEN [@ EXCEPT !.pc = "sending"]
                                     ELSE IdleReq]
        /\ ev' = [NoEv EXCEPT !.op = "lookup", !.s = req[p].s, !.kind = req[p].kind,
                              !.note = IF called THEN "pending" ELSE "failed",
                              !.code = IF called THEN 0
                                       ELSE IF ~phone THEN 400
                                       ELSE NotificationCode(req[p], FALSE)]
  /\ UNCHANGED <<db, tz, timer, now, store, sweep, ops>>

\* the messaging handlers: the message is logged on the student loaded
\* before the send and the student is saved; a save that fails reaches the
\* handler's catch (500)
MessageSave(p, saved) ==
  /\ req[p].pc = "saving" /\ req[p].kind \in MessageKinds
  /\ store' = IF saved THEN Save(store, req[p].s, req[p].copy) ELSE store
  /\ req' = [req EXCEPT ![p] = IdleReq]
  /\ ev' = [NoEv EXCEPT !.op = "message", !.s = req[p].s, !.kind = req[p].kind,
                        !.failed = ~saved, !.note = "sent",
                        !.code = IF saved THEN 200 ELSE 500]
  /\ UNCHANGED <<wa, db, tz, timer, now, sweep, ops>>

\* the fields of a student document a profile update may name
DocFields == {"hist", "attendanceCount", "attendancePercentage", "lastAttendance"}

\* the request bodies tried: profile fields only, an emptied history, a
\* count and a percentage
Bodies ==
  {[f \in {} |-> 0],
   [f \in {"hist"} |-> <<>>],
   [f \in {"attendanceCount"} |-> 7],
   [f \in {"attendancePercentage"} |-> [n |-> 100, d |-> 1]]}

\* $set of the body's fields on a document
SetFields(doc, body) ==
  [f \in DocFields |-> IF f \in DOMAIN body THEN body[f] ELSE doc[f]]

\* updateStudentProfile: Student.findByIdAndUpdate(id, {$set: body}); 400
\* without an id, 404 for an unknown one, 500 when the store fails
UpdateStudentProfile(s, body, ok) ==
  /\ ops < MaxOps
  /\ ops' = ops + 1
  /\ IF s = NoId
     THEN /\ store' = store
          /\ ev' = [NoEv EXCEPT !.op = "rejected", !.s = s, !.code = 400,
                                !.kind = "profile"]
     ELSE IF ~ok
     THEN /\ store' = store
          /\ ev' = [NoEv EXCEPT !.op = "profilefailed", !.s = s, !.code = 500,
                                !.kind = "profile"]
     ELSE IF s \notin DOMAIN store
     THEN /\ store' = store
          /\ ev' = [NoEv EXCEPT !.op = "notfound", !.s = s, !.code = 404,
                                !.kind = "profile"]
     ELSE /\ store' = [store EXCEPT ![s] = SetFields(@, body)]
          /\ ev' = [NoEv EXCEPT !.op = "profile", !.s = s, !.code = 200,
                                !.kind = "profile"]
  /\ UNCHANGED <<wa, db, tz, timer, now, req, sweep>>

\* the store on the morning of day 2: the enrolled student has scanned in
\* or has not
AdminInit ==
  /\ tz \in TimeZones
  /\ now = 2 * DayMinutes + ClockPoints[1] - tz
  /\ store \in [Enrolled -> {EmptyDoc, MarkAttendance(EmptyDoc, "entered", now)}]
  /\ req = [p \in Requests |-> IdleReq]
  /\ sweep = [w \in Sweeps |-> IdleSweep]
  /\ timer = NoTimer
  /\ ops = 0
  /\ ev = NoEv
  /\ wa \in {StartupClient, ReadyClient}
  /\ db = Connected

AdminNext ==
  \/ \E p \in Requests, s \in Students : ScanRead(p, s, TRUE, TRUE)
  \/ \E p \in Requests : ScanMark(p, TRUE, TRUE)
  \/ \E p \in Requests : SendAttendanceNotification(p, TRUE, TRUE)
  \/ \E p \in Requests, outcome \in {"sent", "error"} : NotificationAnswered(p, outcome)
  \/ \E p \in Requests : ScanSave(p, TRUE)
  \/ \E p \in Requests : ScanAnswer(p, TRUE)
  \/ \E w \in Sweeps, answered \in BOOLEAN : CheckoutStart(w, answered)
  \/ \E w \in Sweeps, ok, notify \in BOOLEAN : CheckoutStudent(w, ok, notify)
  \/ \E w \in Sweeps, known, info \in BOOLEAN : CheckoutNotification(w, known, info)
  \/ \E w \in Sweeps, outcome \in {"sent", "error"} : SweepNotified(w, outcome, TRUE)
  \/ \E p \in Requests, s \in Students \cup {NoId}, kind \in MessageKinds,
          answered \in BOOLEAN :
       MessageRead(p, s, kind, answered)
  \/ \E p \in Requests, info \in BOOLEAN : MessageDirect(p, info)
  \/ \E p \in Requests, phone, info \in BOOLEAN : MessageSend(p, phone, info)
  \/ \E p \in Requests, saved \in BOOLEAN : MessageSave(p, saved)
  \/ \E s \in Students \cup {NoId}, body \in Bodies, ok \in BOOLEAN :
       UpdateStudentProfile(s, body, ok)

Admin == AdminInit /\ [][AdminNext]_vars

(***************************************************************************)
(* The specification: the handlers and the sweeps at any admissible time,  *)
(* on a store that answers every call, except that the first read of a    *)
(* scan may be rejected and a save of a sweep may fail.                    *)
(* The WhatsApp client has not emitted ready: every student has a guardian *)
(* phone, sendAttendanceNotification returns at once and sendTextMessage   *)
(* counts a failed message without calling the client.                     *)
(***************************************************************************)
Next ==
  \/ Tick
  \/ \E p \in Requests, s \in Students, answered, genuine \in BOOLEAN :
       ScanRead(p, s, answered, genuine)
  \/ \E p \in Requests : ScanMark(p, TRUE, TRUE)
  \/ \E p \in Requests : ScanAnswer(p, TRUE)
  \/ \E p \in Requests, s \in Students : ManualRead(p, s, TRUE)
  \/ \E p \in Requests, status \in StatusEnum : ManualMark(p, status, TRUE, FALSE)
  \/ \E p \in Requests, s \in Students : DeleteRead(p, s, TRUE)
  \/ \E p \in Requests, i \in 1..MaxDay : DeleteApply(p, i, TRUE)
  \/ \E p \in Requests : DeleteMissing(p)
  \/ \E p \in Requests, s \in Students : ClearRead(p, s, TRUE)
  \/ \E p \in Requests : ClearApply(p, TRUE)
  \/ \E w \in Sweeps, viaPrev \in BOOLEAN : BacklogStart(w, viaPrev, TRUE)
  \/ \E w \in Sweeps, ok \in BOOLEAN : BacklogStudent(w, ok, TRUE, TRUE)
  \/ \E w \in Sweeps : PrevDayStart(w, TRUE)
  \/ \E w \in Sweeps, ok \in BOOLEAN : PrevDayStudent(w, ok, TRUE, TRUE)
  \/ \E w \in Sweeps : CutoffStart(w, TRUE)
  \/ \E w \in Sweeps, ok \in BOOLEAN : CutoffStudent(w, ok, TRUE, TRUE, TRUE)

Spec == Init /\ [][Next]_vars

(***************************************************************************)
(* The scan and the manual override on a store and a notification service  *)
(* that may fail: a save or the read before the response may throw, the    *)
(* guardian phone may be missing, the client may become ready and be       *)
(* disconnected at any time, the send may fail in each of its ways.  The   *)
(* requests arrive within one morning: the clock stays at 09:00.           *)
(***************************************************************************)
FaultNext ==
  \/ \E p \in Requests, s \in Students, answered, genuine \in BOOLEAN :
       ScanRead(p, s, answered, genuine)
  \/ \E p \in Requests, ok, phone \in BOOLEAN : ScanMark(p, ok, phone)
  \/ \E p \in Requests, known, info \in BOOLEAN : SendAttendanceNotification(p, known, info)
  \/ \E p \in Requests, outcome \in SendOutcomes : NotificationAnswered(p, outcome)
  \/ \E p \in Requests, saved \in BOOLEAN : ScanSave(p, saved)
  \/ \E p \in Requests, reloaded \in BOOLEAN : ScanAnswer(p, reloaded)
  \/ \E p \in Requests, s \in Students \cup {NoId}, answered \in BOOLEAN :
       ManualRead(p, s, answered)
  \/ \E p \in Requests, status \in {"entered", "late"}, ok, notify \in BOOLEAN :
       ManualMark(p, status, ok, notify)
  \/ \E kind \in {"ready", "disconnected"} : ClientEvent(kind)

Faults == Init /\ [][FaultNext]_vars

(***************************************************************************)
(* The running process: the server starts the scheduler once and stays up. *)
(* The startup sweep runs once, the daily timer runs the cutoff sweep      *)
(* whether the startup sweep has ended or not, and scans arrive one at a   *)
(* time on the days up to MaxDay.  The store holds what an earlier life of *)
(* the process left: nothing, or a record of day 1 left open.  Saves       *)
(* succeed; a query of a sweep may fail.  The WhatsApp client has not      *)
(* emitted ready, so that no notification waits for the client.            *)
(***************************************************************************)
\* the ledgers the process may find when it starts on day 2
LeftBehind == {EmptyDoc, MarkAttendance(EmptyDoc, "entered", DayMinutes + ClockPoints[1] - tz)}

RunInit ==
  /\ tz \in TimeZones
  /\ now = 2 * DayMinutes + ClockPoints[1] - tz
  /\ store \in [Enrolled -> LeftBehind]
  /\ req = [p \in Requests |-> IdleReq]
  /\ sweep = [w \in SweepPair |-> IdleSweep]
  /\ timer = NoTimer
  /\ ops = 0
  /\ ev = NoEv
  /\ wa = StartupClient
  /\ db = Connected

\* variant: startScheduler returns with the sweep launched and no timeout set
StartSchedulerAwaited(w) ==
  /\ ~timer.started
  /\ sweep[w].pc = "idle"
  /\ \A v \in DOMAIN sweep : v < w => sweep[v].pc # "idle"
  /\ sweep' = [sweep EXCEPT ![w] = [IdleSweep EXCEPT !.pc = "backlogfind",
                                                     !.today = LocalMidnight(now)]]
  /\ timer' = [NoTimer EXCEPT !.started = TRUE]
  /\ ev' = [NoEv EXCEPT !.op = "startup", !.today = LocalMidnight(now)]
  /\ UNCHANGED <<wa, db, tz, now, store, req, ops>>

\* startScheduler: checkAllPastAttendance is called and not awaited, so it
\* runs up to its Student.find; the first timeout is set and startScheduler
\* returns with the query unanswered
StartScheduler(w) ==
  /\ ~timer.started
  /\ sweep[w].pc = "idle"
  /\ \A v \in DOMAIN sweep : v < w => sweep[v].pc # "idle"
  /\ sweep' = [sweep EXCEPT ![w] = [IdleSweep EXCEPT !.pc = "backlogfind",
                                                     !.today = LocalMidnight(now)]]
  /\ timer' = [NoTimer EXCEPT !.started = TRUE, !.armed = {NextTarget(now)}]
  /\ ev' = [NoEv EXCEPT !.op = "startup", !.today = LocalMidnight(now)]
  /\ UNCHANGED <<wa, db, tz, now, store, req, ops>>

\* the store answers the query of the startup sweep, or rejects it: the
\* sweep throws and the .catch of startScheduler logs the error
BacklogAnswer(w, answered) ==
  /\ sweep[w].pc = "backlogfind"
  /\ BacklogFound(w, FALSE, sweep[w].today, answered)
  /\ timer' = [timer EXCEPT !.faulty = @ \/ ~answered]
  /\ UNCHANGED <<wa, db, tz, now, store, req, ops>>

\* the timeout's callback starts: autoMarkLeaveAttendance is called and
\* runs up to its Student.find, whatever else is in flight.  A timer set
\* again for the target that has just fired is due at once.
TimerFire(w) ==
  /\ timer.started
  /\ sweep[w].pc = "idle"
  /\ \A v \in DOMAIN sweep : v < w => sweep[v].pc # "idle"
  /\ \E t \in timer.armed :
       /\ now >= t
       /\ timer' = [timer EXCEPT !.armed = @ \ {t},
                                 !.lastRun = LocalDay(now),
                                 !.twice = @ \/ timer.lastRun = LocalDay(now)]
  /\ sweep' = [sweep EXCEPT ![w] = [IdleSweep EXCEPT !.pc = "cutofffind",
                                                     !.today = LocalMidnight(now)]]
  /\ ev' = [NoEv EXCEPT !.op = "timer", !.today = LocalMidnight(now)]
  /\ UNCHANGED <<wa, db, tz, now, store, req, ops>>

\* the store answers the query of the timer's body, or rejects it: the
\* body throws into the callback's catch.  A body that ends here (nothing
\* found, or thrown) is followed by scheduleAutoMarkAttendance(), which sets
\* the timeout for the target that has just fired for as long as the clock
\* still reads that target.
CutoffAnswer(w, answered, late) ==
  /\ sweep[w].pc = "cutofffind"
  /\ CutoffFound(w, sweep[w].today, answered)
  /\ timer' = Rearmed([timer EXCEPT !.faulty = @ \/ ~answered],
                      AfterBody(now, late), sweep'[w].pc = "idle", ~answered)
  /\ UNCHANGED <<wa, db, tz, now, store, req, ops>>

\* The clock of the running process.  A timeout that is due runs before the
\* clock moves on; the query of the startup sweep may still be unanswered
\* when it does.  Past day MaxDay + 1 no scan arrives any more and every
\* record is of an earlier day, so each further day is the same as that
\* day: the clock and the timer are set back by one day.
RunTick ==
  /\ timer.started
  /\ \A p \in Requests : req[p].pc = "idle"
  /\ \A w \in DOMAIN sweep : sweep[w].pc \in {"idle", "backlogfind"}
  /\ \A t \in timer.armed : now < t
  /\ IF LocalDay(NextTime(now)) <= MaxDay + 1
     THEN /\ now' = NextTime(now)
          /\ timer' = timer
     ELSE /\ now' = NextTime(now) - DayMinutes
          /\ timer' = [timer EXCEPT !.armed = {t - DayMinutes : t \in @},
                                    !.lastRun = @ - 1]
  /\ ev' = NoEv
  /\ UNCHANGED <<wa, db, tz, store, req, sweep, ops>>

\* a scan arrives while the server is up, on a day up to MaxDay, with no
\* other request in flight
RunScan(p, s) ==
  /\ timer.started
  /\ LocalDay(now) <= MaxDay
  /\ \A q \in Requests : req[q].pc = "idle"
  /\ ScanRead(p, s, TRUE, TRUE)

RunNext ==
  \/ \E w \in SweepPair : StartScheduler(w)
  \/ \E w \in SweepPair, answered \in BOOLEAN : BacklogAnswer(w, answered)
  \/ \E w \in SweepPair : BacklogStudent(w, TRUE, TRUE, TRUE)
  \/ \E w \in SweepPair : TimerFire(w)
  \/ \E w \in SweepPair, answered, late \in BOOLEAN : CutoffAnswer(w, answered, late)
  \/ \E w \in SweepPair, late \in BOOLEAN : CutoffStudent(w, TRUE, TRUE, TRUE, late)
  \/ \E p \in Requests, s \in Students : RunScan(p, s)
  \/ \E p \in Requests : ScanMark(p, TRUE, TRUE)
  \/ \E p \in Requests : ScanAnswer(p, TRUE)
  \/ RunTick

\* the process does not stop: time passes, a due timeout fires, a sweep or
\* a request in flight goes on; and the clock does not stand still: of the
\* bodies of the timer that end, one ends past the millisecond of its target
Running ==
  /\ RunInit /\ [][RunNext]_vars
  /\ WF_vars(RunNext)
  /\ SF_vars(\E w \in SweepPair, answered \in BOOLEAN : CutoffAnswer(w, answered, TRUE))

(***************************************************************************)
(* The scheduler by itself: the server starts on day 2, in the morning or  *)
(* at 18:45 sharp, and no request arrives.  The store holds what an        *)
(* earlier life of the process left: a record of day 1 left open or none,  *)
(* and a record of the morning of day 2 or none.  Queries and saves of the *)
(* sweeps may fail.                                                        *)
(***************************************************************************)
BootLedgers ==
  LeftBehind \cup {MarkAttendance(doc, "entered", 2 * DayMinutes + ClockPoints[1] - tz) :
                     doc \in LeftBehind}

BootInit ==
  /\ tz \in TimeZones
  /\ now \in {2 * DayMinutes + ClockPoints[i] - tz : i \in DOMAIN ClockPoints}
  /\ store \in [Enrolled -> BootLedgers]
  /\ req = [p \in Requests |-> IdleReq]
  /\ sweep = [w \in SweepPair |-> IdleSweep]
  /\ timer = NoTimer
  /\ ops = 0
  /\ ev = NoEv
  /\ wa \in {StartupClient, ReadyClient}
  /\ db = Connected

BootNext ==
  \/ \E w \in SweepPair : StartScheduler(w)
  \/ \E w \in SweepPair, answered \in BOOLEAN : BacklogAnswer(w, answered)
  \/ \E w \in SweepPair, ok, phone, info \in BOOLEAN : BacklogStudent(w, ok, phone, info)
  \/ \E w \in SweepPair : TimerFire(w)
  \/ \E w \in SweepPair, answered, late \in BOOLEAN : CutoffAnswer(w, answered, late)
  \/ \E w \in SweepPair, ok, phone, info, late \in BOOLEAN :
       CutoffStudent(w, ok, phone, info, late)
  \/ \E w \in SweepPair, outcome \in SendOutcomes, late \in BOOLEAN :
       SweepNotified(w, outcome, late)
  \/ RunTick

\* the clock does not stop and a timeout that is due runs when the event
\* loop has a turn for it; nothing is assumed of the store or of the
\* WhatsApp client, whose answers may never come
Booting ==
  /\ BootInit /\ [][BootNext]_vars
  /\ WF_vars(RunTick)
  /\ WF_vars(\E w \in SweepPair : TimerFire(w))

(***************************************************************************)
(* The sweeps on a quiet system: no request is in flight, both students    *)
(* are enrolled, and the store holds what two past days and the current    *)
(* day, now at 18:45, left.  Queries, saves and notifications may fail.    *)
(***************************************************************************)
\* a day of a student: no scan, or an entry in the morning and no exit
DayCases == {"none", "open"}

Visit(doc, d, case) ==
  IF case = "none" THEN doc
  ELSE MarkAttendance(doc, "entered", d * DayMinutes + ClockPoints[1] - tz)

\* the ledgers that the days up to day d may leave
RECURSIVE LedgersUpTo(_)
LedgersUpTo(d) ==
  IF d = 0 THEN {EmptyDoc}
  ELSE {Visit(doc, d, c) : doc \in LedgersUpTo(d - 1), c \in DayCases}

Ledgers == LedgersUpTo(3)

SweepInit ==
  /\ tz \in TimeZones
  /\ now = 3 * DayMinutes + ClockPoints[2] - tz
  /\ store \in [Students -> Ledgers]
  /\ req = [p \in Requests |-> IdleReq]
  /\ sweep = [w \in Sweeps |-> IdleSweep]
  /\ timer = NoTimer
  /\ ops = 0
  /\ ev = NoEv
  /\ wa = ReadyClient
  /\ db = Connected

\* A pass of a loop with its save failing, without a guardian phone, with
\* the client's session lost, or with none of these: <<ok, phone, info>>.
\* The other four combinations give the same steps (a failed save ends the
\* pass before the phone is looked at, no phone before the client is).
SweepNext ==
  \/ \E w \in Sweeps, viaPrev, answered \in BOOLEAN : BacklogStart(w, viaPrev, answered)
  \/ \E w \in Sweeps, c \in {<<FALSE, TRUE, TRUE>>, <<TRUE, FALSE, TRUE>>,
                            <<TRUE, TRUE, FALSE>>, <<TRUE, TRUE, TRUE>>} :
       BacklogStudent(w, c[1], c[2], c[3])
  \/ \E w \in Sweeps, answered \in BOOLEAN : PrevDayStart(w, answered)
  \/ \E w \in Sweeps, c \in {<<FALSE, TRUE, TRUE>>, <<TRUE, FALSE, TRUE>>,
                            <<TRUE, TRUE, FALSE>>, <<TRUE, TRUE, TRUE>>} :
       PrevDayStudent(w, c[1], c[2], c[3])
  \/ \E w \in Sweeps, answered \in BOOLEAN : CutoffStart(w, answered)
  \/ \E w \in Sweeps, c \in {<<FALSE, TRUE, TRUE>>, <<TRUE, FALSE, TRUE>>,
                            <<TRUE, TRUE, FALSE>>, <<TRUE, TRUE, TRUE>>} :
       CutoffStudent(w, c[1], c[2], c[3], TRUE)
  \/ \E w \in Sweeps, outcome \in SendOutcomes : SweepNotified(w, outcome, TRUE)

Sweeping == SweepInit /\ [][SweepNext]_vars

(***************************************************************************)
(* One scan on two histories: both students are enrolled, their histories  *)
(* agree on the record of the current day and differ freely on the two     *)
(* days before, and each student is scanned once at the same time.         *)
(***************************************************************************)
\* a day of a student: no entry, an entry and no exit, an entry and an exit
TwinCases == {"none", "open", "closed"}

\* local times of day of the scan, and of the earlier entry and exit of the
\* current day
TwinClock == {180, 540}
TwinEarlier == <<60, 120>>

\* the entry and the exit of a day, 09:00 and 18:45 on a past day, as manual
\* overrides record them (status entered, then left): these close the day's
\* record in either zone
TwinVisit(doc, d, case, today) ==
  LET at == IF d = today THEN TwinEarlier ELSE ClockPoints
      entry == d * DayMinutes + at[1] - tz
      exit == d * DayMinutes + at[2] - tz
  IN IF case = "none" THEN doc
     ELSE IF case = "open" THEN MarkAttendance(doc, "entered", entry)
     ELSE MarkAttendance(MarkAttendance(doc, "entered", entry), "left", exit)

\* the histories that the days up to day d may leave
RECURSIVE TwinLedgersUpTo(_, _)
TwinLedgersUpTo(d, today) ==
  IF d = 0 THEN {EmptyDoc}
  ELSE {TwinVisit(doc, d, c, today) : doc \in TwinLedgersUpTo(d - 1, today), c \in TwinCases}

TwinLedgers == TwinLedgersUpTo(3, 3)

TwinInit ==
  /\ tz \in TimeZones
  /\ now \in {3 * DayMinutes + c - tz : c \in TwinClock}
  /\ store \in {st \in [Students -> TwinLedgers] :
                  DayRecord(st[1].hist, now) = DayRecord(st[2].hist, now)}
  /\ req = [p \in Requests |-> IdleReq]
  /\ sweep = [w \in Sweeps |-> IdleSweep]
  /\ timer = NoTimer
  /\ ops = 0
  /\ ev = NoEv
  /\ wa \in {StartupClient, ReadyClient}
  /\ db = Connected

\* the scan of the first student, then the scan of the second
TwinScan(p, s) ==
  /\ ops = s - 1
  /\ ScanRead(p, s, TRUE, TRUE)

TwinNext ==
  \/ \E p \in Requests, s \in Students : TwinScan(p, s)
  \/ \E p \in Requests : ScanMark(p, TRUE, TRUE)
  \/ \E p \in Requests : SendAttendanceNotification(p, TRUE, TRUE)
  \/ \E p \in Requests, outcome \in {"sent", "error"} : NotificationAnswered(p, outcome)
  \/ \E p \in Requests : ScanSave(p, TRUE)
  \/ \E p \in Requests : ScanAnswer(p, TRUE)

Twins == TwinInit /\ [][TwinNext]_vars

(***************************************************************************)
(* Two students side by side: both are enrolled, each with nothing or with *)
(* a record of day 1 left open, and scans, manual overrides (to present,   *)
(* declining the notification) and the backlog sweep interleave on the     *)
(* morning of day 2.  The client is ready and every send succeeds.         *)
(***************************************************************************)
PairInit ==
  /\ tz \in TimeZones
  /\ now = 2 * DayMinutes + ClockPoints[1] - tz
  /\ store \in [Students -> LeftBehind]
  /\ req = [p \in Requests |-> IdleReq]
  /\ sweep = [w \in Sweeps |-> IdleSweep]
  /\ timer = NoTimer
  /\ ops = 0
  /\ ev = NoEv
  /\ wa = ReadyClient
  /\ db = Connected

PairNext ==
  \/ \E p \in Requests, s \in Students : ScanRead(p, s, TRUE, TRUE)
  \/ \E p \in Requests : ScanMark(p, TRUE, TRUE)
  \/ \E p \in Requests : SendAttendanceNotification(p, TRUE, TRUE)
  \/ \E p \in Requests : NotificationAnswered(p, "sent")
  \/ \E p \in Requests : ScanSave(p, TRUE)
  \/ \E p \in Requests : ScanAnswer(p, TRUE)
  \/ \E p \in Requests, s \in Students : ManualRead(p, s, TRUE)
  \/ \E p \in Requests : ManualMark(p, "present", TRUE, FALSE)
  \/ \E w \in Sweeps : BacklogStart(w, FALSE, TRUE)
  \/ \E w \in Sweeps : BacklogStudent(w, TRUE, TRUE, TRUE)
  \/ \E w \in Sweeps : SweepNotified(w, "sent", TRUE)

Pairs == PairInit /\ [][PairNext]_vars

(***************************************************************************)
(* Two sweeps at once: the startup sweep and an administrator's            *)
(* previous-day check may run at the same time, each with the documents    *)
(* its own query returned.  The store holds what two past days and the     *)
(* current day left for the enrolled student; saves succeed.               *)
(***************************************************************************)
OverlapInit ==
  /\ tz \in TimeZones
  /\ now = 3 * DayMinutes + ClockPoints[2] - tz
  /\ store \in [Enrolled -> Ledgers]
  /\ req = [p \in Requests |-> IdleReq]
  /\ sweep = [w \in SweepPair |-> IdleSweep]
  /\ timer = NoTimer
  /\ ops = 0
  /\ ev = NoEv
  /\ wa \in {StartupClient, ReadyClient}
  /\ db = Connected

OverlapNext ==
  \/ \E w \in SweepPair, viaPrev \in BOOLEAN : BacklogStart(w, viaPrev, TRUE)
  \/ \E w \in SweepPair, phone \in BOOLEAN : BacklogStudent(w, TRUE, phone, TRUE)
  \/ \E w \in SweepPair : PrevDayStart(w, TRUE)
  \/ \E w \in SweepPair, phone \in BOOLEAN : PrevDayStudent(w, TRUE, phone, TRUE)
  \/ \E w \in SweepPair, outcome \in {"sent", "error"} : SweepNotified(w, outcome, TRUE)

Overlap == OverlapInit /\ [][OverlapNext]_vars

(***************************************************************************)
(* Scans one after the other: nothing but scans happens, and a scan        *)
(* arrives when the scan before it has been answered.                      *)
(***************************************************************************)
SoloScan(p, s) ==
  /\ \A q \in Requests : req[q].pc = "idle"
  /\ ScanRead(p, s, TRUE, TRUE)

ScansNext ==
  \/ Tick
  \/ \E p \in Requests, s \in Students : SoloScan(p, s)
  \/ \E p \in Requests : ScanMark(p, TRUE, TRUE)
  \/ \E p \in Requests : SendAttendanceNotification(p, TRUE, TRUE)
  \/ \E p \in Requests, outcome \in {"sent", "error"} : NotificationAnswered(p, outcome)
  \/ \E p \in Requests : ScanSave(p, TRUE)
  \/ \E p \in Requests : ScanAnswer(p, TRUE)

\* the client has emitted ready by the time of the first scan, or never does
ScansInit ==
  /\ tz \in TimeZones
  /\ now = DayMinutes + ClockPoints[1] - tz
  /\ store = [s \in Enrolled |-> EmptyDoc]
  /\ req = [p \in Requests |-> IdleReq]
  /\ sweep = [w \in Sweeps |-> IdleSweep]
  /\ timer = NoTimer
  /\ ops = 0
  /\ ev = NoEv
  /\ wa \in {StartupClient, ReadyClient}
  /\ db = Connected

Scans == ScansInit /\ [][ScansNext]_vars

(***************************************************************************)
(* Startup: connectDB next to the WhatsApp client, which the module        *)
(* initialises when it is loaded.                                          *)
(***************************************************************************)
\* process.env.MONGODB_URI by its scheme; "undefined" when it is not set
Uris == {"undefined", "mongodb://", "mongodb+srv://", "http://"}

validateMongoURI(uri) == uri \in {"mongodb://", "mongodb+srv://"}

RetryAllowedThrice(retryCount) == retryCount < MAX_RETRIES

RetryAllowed(retryCount) == retryCount < MAX_RETRIES - 1

\* the catch block of connectDB
ConnectFailed(d) ==
  IF RetryAllowed(d.retryCount)
  THEN [d EXCEPT !.retryCount = @ + 1, !.pc = "waiting"]
  ELSE [d EXCEPT !.pc = "exited"]

\* connectDB up to mongoose.connect, called at startup and again by the
\* catch block once its five seconds are over
connectDB ==
  /\ db.pc \in {"idle", "waiting"}
  /\ LET d == [db EXCEPT !.attempts = @ + 1] IN
     db' = IF validateMongoURI(db.uri)
           THEN [d EXCEPT !.pc = "connecting"]
           ELSE ConnectFailed(d)
  /\ UNCHANGED <<wa, tz, now, store, req, sweep, timer, ops, ev>>

\* mongoose.connect answers
ConnectAnswer(ok) ==
  /\ db.pc = "connecting"
  /\ db' = IF ok THEN [db EXCEPT !.pc = "connected", !.retryCount = 0]
           ELSE ConnectFailed(db)
  /\ UNCHANGED <<wa, tz, now, store, req, sweep, timer, ops, ev>>

StartupInit ==
  /\ tz \in TimeZones
  /\ now = DayMinutes + ClockPoints[1] - tz
  /\ store = [s \in Enrolled |-> EmptyDoc]
  /\ req = [p \in Requests |-> IdleReq]
  /\ sweep = [w \in Sweeps |-> IdleSweep]
  /\ timer = NoTimer
  /\ ops = 0
  /\ ev = NoEv
  /\ wa = StartupClient
  /\ \E uri \in Uris :
       db = [pc |-> "idle", uri |-> uri, retryCount |-> 0, attempts |-> 0]

StartupNext ==
  \/ connectDB
  \/ \E ok \in BOOLEAN : ConnectAnswer(ok)
  \/ \E kind \in ClientEvents : ClientEvent(kind)
  \/ resetQR
  \/ logout
  \/ NewClient

Startup == StartupInit /\ [][StartupNext]_vars

(***************************************************************************)
(* Properties.                                                             *)
(***************************************************************************)
SweepOps == {"backlog", "prevday", "cutoff"}

\* the steps of the scan handler after the student was loaded
ScanOps == {"scan", "lookup", "answered", "resave", "answer"}

\* the records of a history that belong to the local day of t
RecordsOfDay(hist, t) == {i \in 1..Len(hist) : LocalDay(hist[i].date) = LocalDay(t)}

\* an open record: entryTime set, leaveTime unset
IsOpen(r) == r.entryTime # Null /\ r.leaveTime = Null

\* C1: after any sequence of scans, manual overrides and sweeps every student's
\* attendanceHistory holds at most one record per local calendar day.
OneRecordPerDay ==
  \A s \in DOMAIN store :
    \A i, j \in 1..Len(store[s].hist) :
      i # j => LocalDay(store[s].hist[i].date) # LocalDay(store[s].hist[j].date)

\* a sweep has just closed a record of a student whose history spans two days
OneRecordPerDayWitness ==
  /\ ev.op \in SweepOps /\ ev.closed # {}
  /\ Len(store[ev.s].hist) >= 2

\* C2: two scans of one student that both read the student before either
\* saved leave at most one record for the day.
RacingScansOneRecord ==
  (ev.op \in ScanOps /\ ev.raced) =>
    Cardinality(RecordsOfDay(store[ev.s].hist, now)) <= 1

\* two overlapping scans of one student have both saved, and one of them has
\* just saved its student a second time, after its notification was sent
RacingScansWitness ==
  /\ ev.op = "resave" /\ ev.raced /\ ~ev.failed
  /\ Cardinality({q \in Requests : /\ req[q].raced /\ req[q].s = ev.s
                                    /\ req[q].pc \notin {"idle", "read"}}) = 2

\* C3: a scan chooses EXIT exactly when the student has a record for the
\* scan's local day with entryTime set and leaveTime unset, ENTRY otherwise.
ScanExitIffOpenToday ==
  ev.op = "scan" =>
    (EventKind(ev.status) = "EXIT" <=> (ev.pre # NoRec /\ IsOpen(ev.pre)))

\* C4: a first scan of the day creates {date: today, entered, entryTime: T1,
\* leaveTime: null}; a second scan at T2 > T1 turns that record into left with
\* leaveTime T2, one record for the day, entryTime < leaveTime.
FirstScanEntersSecondLeaves ==
  ev.op = "scan" =>
    LET hist == store[ev.s].hist
        post == DayRecord(hist, now)
    IN /\ ev.pre = NoRec =>
            post = [date |-> LocalDay(now) * DayMinutes - tz, status |-> "entered",
                    entryTime |-> now, leaveTime |-> Null]
       /\ (ev.pre.status = "entered" /\ IsOpen(ev.pre) /\ ev.pre.entryTime < now) =>
            /\ post = [ev.pre EXCEPT !.status = "left", !.leaveTime = now]
            /\ post.entryTime < post.leaveTime
            /\ Cardinality(RecordsOfDay(hist, now)) = 1

\* C5: a scan on a day whose record is closed re-opens that record: status
\* entered, entryTime the scan time, still one record for the day.
ScanReopensClosedDay ==
  (ev.op = "scan" /\ ev.pre # NoRec /\ ev.pre.leaveTime # Null) =>
    LET hist == store[ev.s].hist
        post == DayRecord(hist, now)
    IN /\ post.date = ev.pre.date
       /\ post.status = "entered"
       /\ post.entryTime = now
       /\ Cardinality(RecordsOfDay(hist, now)) = 1

\* a scan has just been applied to a day that was closed at an earlier time
ScanReopensWitness ==
  ev.op = "scan" /\ ev.pre # NoRec /\ ev.pre.leaveTime # Null /\ ev.pre.leaveTime < now

\* C6: in every persisted document attendancePercentage is
\* 100 * (records with status present or entered) / (records), 0 when empty.
PercentageMatchesHistory ==
  \A s \in DOMAIN store :
    LET hist == store[s].hist
        present == Cardinality({i \in 1..Len(hist) : hist[i].status \in {"present", "entered"}})
        pct == store[s].attendancePercentage
    IN IF Len(hist) = 0 THEN pct.n = 0
       ELSE pct.n * Len(hist) = 100 * present * pct.d

\* a sweep has just closed a record and the percentage is strictly between
\* 0 and 100
PercentageWitness ==
  /\ ev.op \in SweepOps /\ ev.closed # {}
  /\ LET pct == store[ev.s].attendancePercentage
     IN pct.n > 0 /\ pct.n < 100 * pct.d

\* C7: in every persisted document attendanceCount is the number of records
\* with status present or entered, also after a closure by a sweep.
CountMatchesHistory ==
  \A s \in DOMAIN store :
    store[s].attendanceCount =
      Cardinality({i \in 1..Len(store[s].hist) :
                     store[s].hist[i].status \in {"present", "entered"}})

\* C8: after a closure by a sweep lastAttendance is the latest leaveTime of
\* the whole history, never an earlier one.
LastAttendanceIsLatestLeave ==
  (ev.op \in SweepOps /\ ev.closed # {}) =>
    \A i \in 1..Len(store[ev.s].hist) :
      store[ev.s].hist[i].leaveTime <= store[ev.s].lastAttendance

\* C9: a record closed by a sweep gets status left and leaveTime 18:30 local
\* of its own date, whatever the day the sweep runs on.
SweepClosesAtOwnCutoff ==
  \A r \in ev.closed :
    /\ r.status = "left"
    /\ r.leaveTime = LocalDay(r.date) * DayMinutes - tz + CutoffMinutes

\* the backlog sweep has just closed a record of an earlier day
SweepClosesWitness ==
  /\ ev.op = "backlog"
  /\ \E r \in ev.closed : LocalDay(r.date) < LocalDay(now)

\* C10: when the backlog sweep completes without a store failure no student
\* has an open record dated before the sweep's today, whatever its status.
BacklogLeavesNoOpenPast ==
  (ev.op = "backlog" /\ ev.done /\ ~ev.failed) =>
    \A s \in DOMAIN store :
      \A i \in 1..Len(store[s].hist) :
        ~(store[s].hist[i].date < ev.today /\ IsOpen(store[s].hist[i]))

\* a student has an open record of day d and day d is over
OpenElapsed(d) ==
  \E s \in DOMAIN store :
    \E i \in 1..Len(store[s].hist) :
      /\ IsOpen(store[s].hist[i])
      /\ LocalDay(store[s].hist[i].date) = d
      /\ LocalDay(now) > d

\* the query of the startup sweep is still unanswered
StartupPending == \E w \in DOMAIN sweep : sweep[w].pc = "backlogfind"

\* C11: in a process that keeps running (the startup sweep has run, the
\* daily timer keeps firing, no query of a sweep fails) every open record is
\* eventually closed once its day is over, also one that a scan opened or
\* re-opened after that day's cutoff sweep.
OpenRecordsEventuallyClosed ==
  \A d \in 1..MaxDay :
    (OpenElapsed(d) /\ ~timer.faulty /\ ~StartupPending)
      ~> (~OpenElapsed(d) \/ timer.faulty \/ StartupPending)

\* C12: a run of the backlog sweep that directly follows a complete run of
\* it (no query or save failed, nothing happened in between) changes no
\* stored document, closes no record and attempts no notification.
BacklogTwiceChangesNothing ==
  [][(ev'.op = "backlog" /\ ev'.again) =>
       (store' = store /\ ev'.closed = {} /\ ev'.note = "none" /\ wa' = wa)]_vars

\* the backlog sweep has run again right after a complete run, and the store
\* holds a record of an earlier day that a sweep closed
BacklogTwiceWitness ==
  /\ ev.op = "backlog" /\ ev.again /\ ev.done /\ ~ev.threw
  /\ \E s \in DOMAIN store :
       \E i \in 1..Len(store[s].hist) :
         /\ store[s].hist[i].date < ev.today
         /\ store[s].hist[i].status = "left"
         /\ store[s].hist[i].leaveTime = SetHoursCutoff(store[s].hist[i].date)

\* C13: when the cutoff sweep has run without a failure no record dated
\* today is open any more, the records it closed have status left and
\* leaveTime 18:30 of today, and a run that directly follows a complete one
\* closes nothing and attempts no notification.
CutoffClosesEveryOpenToday ==
  /\ (ev.op = "cutoff" /\ ev.done /\ ~ev.failed) =>
       \A s \in DOMAIN store :
         \A i \in 1..Len(store[s].hist) :
           ~(LocalDay(store[s].hist[i].date) = LocalDay(ev.today) /\ IsOpen(store[s].hist[i]))
  /\ ev.op = "cutoff" =>
       \A r \in ev.closed :
         r.status = "left" /\ r.leaveTime = LocalMidnight(ev.today) + CutoffMinutes
  /\ (ev.op = "cutoff" /\ ev.again) => (ev.closed = {} /\ ev.note = "none")

\* the last step started the body of the cutoff sweep
CutoffStarted == ev.op = "timer"

\* the process has run through the whole of yesterday
RanThroughYesterday == timer.started /\ LocalDay(now) > 2

\* C14: the body of the cutoff sweep is started exactly once on every
\* calendar day the process runs through, at the time of day the timer is
\* set for (18:45 local in scheduleAutoMarkAttendance; 18:30 is the leave
\* time the sweep stamps), by a single timer; never is more than one timer
\* armed, never does the body run twice for one day.
CutoffBodyOncePerDayAtTimer ==
  /\ CutoffStarted => TimeOfDay(now) = TimerMinutes
  /\ Cardinality(timer.armed) <= 1
  /\ ~timer.twice
  /\ RanThroughYesterday => timer.lastRun >= LocalDay(now) - 1

\* C15: after every run of the timer's body, whether it returned or threw,
\* one timeout is pending again, for 18:45 of the next day.
TimerRearmedAfterEveryRun ==
  (timer.started /\ ev.op = "cutoff" /\ ev.done) =>
    timer.armed = {LocalMidnight(now) + DayMinutes + TimerMinutes}

\* C16: a sweep whose query answered goes through every student the query
\* found, also after a student whose save failed, and does not throw; a
\* sweep throws only from its query, before any student.
SweepSurvivesStudentFailure ==
  /\ (ev.op \in SweepOps /\ ev.done /\ ~ev.threw) =>
       \A w \in Sweeps : sweep[w].handled = sweep[w].found
  /\ (ev.op \in SweepOps /\ ev.threw) =>
       (ev.s = 0 /\ \A w \in Sweeps : sweep[w].handled = {})

\* the backlog sweep found two students, the save of the first failed and
\* the record of the second has just been closed
SweepSurvivesWitness ==
  /\ ev.op = "backlog" /\ ev.done /\ ev.failed /\ ~ev.threw
  /\ ev.closed # {}
  /\ \A w \in Sweeps : Cardinality(sweep[w].found) = 2

\* C17: when the notification of a closure fails, the closed records are in
\* the store with status left and their leaveTime, and the students found
\* after this one are still in the sweep's queue.
NotificationFailureKeepsClosure ==
  (ev.op \in SweepOps /\ ev.note = "failed") =>
    /\ ev.told # {}
    /\ \A r \in ev.told :
         /\ r.status = "left" /\ r.leaveTime # Null
         /\ \E i \in 1..Len(store[ev.s].hist) : store[ev.s].hist[i] = r
    /\ \A w \in Sweeps :
         /\ Ids(sweep[w].queue) = sweep[w].found \ sweep[w].handled
         /\ sweep[w].queue # <<>> => sweep[w].pc = ev.op

\* a notification has just failed for the first of two students found
NotificationFailureWitness ==
  /\ ev.op \in SweepOps /\ ev.note = "failed" /\ ~ev.done
  /\ \A w \in Sweeps : Len(sweep[w].queue) = 1 /\ Cardinality(sweep[w].found) = 2

\* C18 as stated: a sweep attempts exactly one guardian notification for
\* each record it closes (a guardian phone being known), one attempt per
\* closed record when a student has several: a step of a sweep calls
\* sendTextMessage as many times as it closes records.
OneNotificationPerClosedRecord ==
  [][(ev'.op \in SweepOps /\ ev'.note # "nophone") =>
       wa'.stats.total - wa.stats.total = Cardinality(ev'.closed)]_vars

\* C18 as amended: a sweep attempts exactly one guardian notification for
\* each student whose records it closed and saved (a guardian phone being
\* known), whatever the number of records, and does not come back to a
\* student whose notification failed.
OneNotificationPerClosedStudent ==
  [][/\ (ev'.op \in SweepOps /\ ev'.note # "nophone") =>
          wa'.stats.total - wa.stats.total = (IF ev'.closed # {} THEN 1 ELSE 0)
     /\ (ev'.op \in SweepOps /\ ev'.note = "failed") =>
          \A w \in Sweeps : ev'.s \notin Ids(sweep'[w].queue)]_vars

\* the backlog sweep has closed two records of one student and attempted
\* the one notification
OneNotificationWitness ==
  /\ ev.op = "backlog" /\ Cardinality(ev.closed) = 2
  /\ ev.note \in {"pending", "failed"}
  /\ wa.stats.total = 1

\* C19: when the scan handler answers 500 because the store failed at some
\* point of the scan, the stored document is what it was before the scan
\* wrote.
FailedScanLeavesNoTrace ==
  /\ (ev.op \in {"scanfailed", "answer"} /\ ev.code = 500) => store[ev.s] = ev.before
  /\ (ev.op = "readfailed" /\ ev.kind = "scan" /\ ev.s \in DOMAIN store)
       => store[ev.s] = ev.before

\* C20: a step in which the notification of a scan or of a manual override
\* fails leaves the store as the handler's save left it; the manual override
\* answers 200 in that step, and the scan handler answers 200 when the read
\* of the updated student before its response succeeds.
NotificationFailureKeepsMark ==
  [][/\ (ev'.op \in {"lookup", "answered", "answer"} /\ ev'.note = "failed")
          => store' = store
     /\ (ev'.op \in {"lookup", "answered"} /\ ev'.note = "failed"
           /\ ev'.kind = "manual")
          => ev'.code = 200
     /\ (ev'.op = "manual" /\ ev'.note = "failed")
          => /\ DayRecord(store'[ev'.s].hist, now).status = ev'.status
             /\ ev'.code = 200
     /\ (ev'.op = "answer" /\ ev'.note = "failed" /\ ev'.reloaded)
          => ev'.code = 200]_vars

\* a scan whose notification failed has just been answered 200, and the
\* record of the day it saved is in the store
NotificationFailureScanWitness ==
  /\ ev.op = "answer" /\ ev.note = "failed" /\ ev.reloaded /\ ev.code = 200
  /\ DayRecord(store[ev.s].hist, now).status \in {"entered", "left"}

\* C21: a scan or a manual override that names a student who does not exist
\* is answered 404; the step enrols no student, changes no stored document,
\* leaves no request in flight and attempts no notification.
UnknownStudentChangesNothing ==
  [][(ev'.op = "notfound" /\ ev'.kind \in {"scan", "manual"}) =>
       /\ ev'.code = 404
       /\ ev'.s \notin DOMAIN store'
       /\ store' = store
       /\ req' = req
       /\ ev'.note = "none"
       /\ wa' = wa]_vars

\* a scan for an unknown student was just answered while a ledger with a
\* record exists and another request is in flight
UnknownStudentWitness ==
  /\ ev.op = "notfound" /\ ev.kind = "scan" /\ ev.code = 404
  /\ \E s \in DOMAIN store : store[s].hist # <<>>
  /\ \E p \in Requests : req[p].pc = "read"

\* C22: the manual override answers 400 and leaves the ledger alone exactly
\* when the requested status is none of entered, left, present, absent and
\* late; every one of these five is accepted.
ManualRejectsOnlyOutsideEnum ==
  /\ (ev.op = "rejected" /\ ev.kind = "manual" /\ ev.s # NoId /\ ev.code = 400)
       => ev.status \notin StatusEnum
  /\ ev.op = "manual" => ev.status \in StatusEnum

\* what a scan at time t makes of a document
ScanApplied(doc, t) == MarkAttendance(doc, StatusToSave(doc.hist, t), t)

\* what the cutoff sweep of the day starting at today makes of a document
CutoffApplied(doc, today, leave) ==
  LET i == CutoffIndex(doc.hist, today)
  IN IF i = 0 \/ ~RangeQuery(doc.hist, today, today + DayMinutes) THEN doc
     ELSE SweepClose(doc, {i}, LAMBDA r : leave, i)

\* C23: when a scan of a student wrote between the cutoff sweep's read of
\* that student and the sweep's save, the document the sweep's save leaves is
\* the outcome of the two in one of the two sequential orders.
ScanAndSweepSerialized ==
  [][\A w \in Sweeps :
       (sweep[w].pc = "cutoff" /\ ev'.op = "cutoff" /\ ev'.closed # {}) =>
         LET item == Head(sweep[w].queue)
             today == sweep[w].today
             leave == sweep[w].leaveTime
             scanned == ScanApplied(item.doc, now)
         IN (store[item.s] # item.doc /\ store[item.s] = scanned) =>
              store'[item.s] \in
                {CutoffApplied(scanned, today, leave),
                 ScanApplied(CutoffApplied(item.doc, today, leave), now)}]_vars

\* the steps of a scan, a manual override or a sweep that save a document
Marking == {"scan", "resave", "manual"} \cup SweepOps

\* the record of a history with the given date, NoRec when there is none
RecordDated(hist, date) ==
  IF \E i \in 1..Len(hist) : hist[i].date = date
  THEN hist[CHOOSE i \in 1..Len(hist) : hist[i].date = date]
  ELSE NoRec

\* a step re-opens the stored record r of student s: a scan or a manual
\* override marks entered on the record of the current day, which is closed
\* (section 4.1: the day is re-opened with a fresh entryTime)
ReopensStored(s, r) ==
  /\ ev'.op \in {"scan", "manual"} /\ ev'.s = s /\ ev'.status = "entered"
  /\ LocalDay(r.date) = LocalDay(now)
  /\ r.leaveTime # Null

\* C24: an entryTime that is set in the store is the same after every step
\* of a scan, a manual override or a sweep; the re-opening of a closed day,
\* which the ledger engine is specified to do, is not held against the
\* claim: it sets entryTime to the time of the re-entry.
EntryTimeSetOnce ==
  [][ev'.op \in Marking =>
       \A s \in DOMAIN store : \A i \in 1..Len(store[s].hist) :
         LET r == store[s].hist[i]
             after == RecordDated(store'[s].hist, r.date)
         IN (r.entryTime # Null /\ after # NoRec) =>
              \/ after.entryTime = r.entryTime
              \/ ReopensStored(s, r) /\ after.entryTime = now]_vars

\* C25: a leaveTime that is set in the store is the same after every step
\* of a scan, a manual override or a sweep; the re-opening of a closed day,
\* which the ledger engine is specified to do, is not held against the
\* claim: it clears leaveTime.
LeaveTimeSetOnce ==
  [][ev'.op \in Marking =>
       \A s \in DOMAIN store : \A i \in 1..Len(store[s].hist) :
         LET r == store[s].hist[i]
             after == RecordDated(store'[s].hist, r.date)
         IN (r.leaveTime # Null /\ after # NoRec) =>
              \/ after.leaveTime = r.leaveTime
              \/ ReopensStored(s, r) /\ after.leaveTime = Null]_vars

\* C26: the scan handler and the sweeps put a record in the same day: a
\* stored record is the one a scan at the current time looks up as today's
\* exactly when it lies in the range the cutoff sweep takes for today.
ScanAndSweepsAgreeOnDay ==
  \A s \in DOMAIN store : \A i \in 1..Len(store[s].hist) :
    LET r == store[s].hist[i]
        today == LocalMidnight(now)
    IN IsoDate(r.date) = IsoDate(now) <=> (r.date >= today /\ r.date < today + DayMinutes)

\* C27: when the backlog sweep that opens the previous-day check saved all
\* its closures, the second phase finds no record of yesterday to close: it
\* closes nothing and notifies nobody, so the check does what the backlog
\* sweep alone does.
PrevDayPhaseClosesNothing ==
  /\ \A w \in Sweeps :
       (sweep[w].pc = "prevday" /\ ~sweep[w].failed) =>
         \A k \in 1..Len(sweep[w].queue) :
           PrevDayIndex(sweep[w].queue[k].doc.hist, sweep[w].today) = 0
  /\ (ev.op = "prevday" /\ ~ev.failed) => (ev.closed = {} /\ ev.note = "none")

\* the second phase has just passed over a student whose record of
\* yesterday the first phase closed at that day's cutoff
PrevDayPhaseWitness ==
  /\ ev.op = "prevday" /\ ~ev.failed /\ ev.s \in DOMAIN store
  /\ \E i \in 1..Len(store[ev.s].hist) :
       LET r == store[ev.s].hist[i]
       IN r.date = ev.today /\ r.status = "left" /\ r.leaveTime = SetHoursCutoff(r.date)

\* both students have been scanned and both scans have saved
TwinsScanned ==
  /\ ops = Cardinality(Students)
  /\ \A p \in Requests : req[p].pc # "read"

\* C28: two histories that agree on the record of the scan's day, whatever
\* their other days, have the same record for that day after the same scan
\* (so the same status and event kind), and a scan changes no record of
\* another day.
ScanLooksAtTodayOnly ==
  /\ [](TwinsScanned => DayRecord(store[1].hist, now) = DayRecord(store[2].hist, now))
  /\ [][ev'.op = "scan" =>
          \A s \in DOMAIN store : \A i \in 1..Len(store[s].hist) :
            LocalDay(store[s].hist[i].date) # LocalDay(now) =>
              store'[s].hist[i] = store[s].hist[i]]_vars

\* both scans are done on two histories that differ on an earlier day: one
\* has an open record there, the other a closed one or none
ScanLooksAtTodayWitness ==
  /\ TwinsScanned
  /\ DayRecord(store[1].hist, now) # NoRec
  /\ \E i \in 1..Len(store[1].hist) :
       /\ IsOpen(store[1].hist[i]) /\ LocalDay(store[1].hist[i].date) < LocalDay(now)
       /\ \A j \in 1..Len(store[2].hist) :
            store[2].hist[j].date = store[1].hist[i].date => ~IsOpen(store[2].hist[j])

\* C29: a step of a scan, a manual override or a sweep that works on one
\* student leaves the stored document of every other student as it is,
\* whatever other operations are in flight.
OtherStudentsUntouched ==
  [][ev'.op \in Marking =>
       \A o \in DOMAIN store \ {ev'.s} : store'[o] = store[o]]_vars

\* a sweep has just closed a record of one student while a request holds
\* the document of another student, who has a record
OtherStudentsWitness ==
  /\ ev.op \in SweepOps /\ ev.closed # {}
  /\ \E p \in Requests :
       /\ req[p].pc = "read" /\ req[p].s # ev.s
       /\ store[req[p].s].hist # <<>>

\* a step in which a backlog sweep is launched: its query is sent
BacklogLaunched ==
  \E w \in DOMAIN sweep : sweep[w].pc = "idle" /\ sweep'[w].pc = "backlogfind"

\* a step after which the timer's body is in flight
CutoffInFlight ==
  \E w \in DOMAIN sweep : sweep'[w].pc \in {"cutofffind", "cutoff"}

\* C30: the step that starts the scheduler launches the backlog sweep and
\* sets the first timeout with the sweep's query unanswered; no later step
\* launches a backlog sweep; the step in which the backlog sweep throws
\* leaves the pending timeout as it is, and then a timeout is pending or the
\* timer's body is already running; and a timeout that is pending when the
\* backlog sweep has thrown fires.
StartupSweepOnceNotAwaited ==
  /\ [][(~timer.started /\ timer'.started) =>
          (BacklogLaunched /\ timer'.armed = {NextTarget(now)})]_vars
  /\ [][BacklogLaunched => ~timer.started]_vars
  /\ [][(ev'.op = "backlog" /\ ev'.threw) =>
          /\ timer'.started /\ timer'.armed = timer.armed
          /\ timer'.armed # {} \/ CutoffInFlight]_vars
  /\ ((timer.started /\ ev.op = "backlog" /\ ev.threw /\ timer.armed # {})
        ~> ev.op = "timer")

\* the scheduler has just started, the backlog sweep it launched has thrown
\* and the first timeout is pending
StartupSweepWitness ==
  /\ timer.started /\ ev.op = "backlog" /\ ev.threw
  /\ timer.armed # {} /\ timer.lastRun = 0

\* C31: no step of a scan or of a sweep leaves a student with fewer records
\* than the student had before the step.
ScansAndSweepsRemoveNoRecord ==
  [][ev'.op \in {"scan", "resave"} \cup SweepOps =>
       \A s \in DOMAIN store : Len(store'[s].hist) >= Len(store[s].hist)]_vars

\* C32: with two backlog sweeps in flight, a pass of a sweep closes, and
\* notifies the guardian of, only records that are still open in the store:
\* no record is closed and announced a second time.
OverlappingSweepsCloseOnce ==
  [][(ev'.op = "backlog" /\ ev'.closed # {}) =>
       \A r \in ev'.closed :
         RecordDated(store[ev'.s].hist, r.date).leaveTime = Null]_vars

\* C33: every stored record with both times set has entryTime <= leaveTime.
EntryNotAfterLeave ==
  \A s \in DOMAIN store : \A i \in 1..Len(store[s].hist) :
    LET r == store[s].hist[i]
    IN (r.entryTime # Null /\ r.leaveTime # Null) => r.entryTime <= r.leaveTime

\* C34: when nothing but scans happens, the scans of a student on one day
\* alternate: the first is an ENTRY, a scan that follows an ENTRY of the day
\* (the day's record says entered) is an EXIT, and a scan that follows an
\* EXIT (the record says left) is an ENTRY again.
ScansAlternate ==
  ev.op = "scan" =>
    EventKind(ev.status) = (IF ev.pre.status = "entered" THEN "EXIT" ELSE "ENTRY")

\* C35: a pass of the backlog sweep leaves every stored record that is dated
\* today or later, or that has a leaveTime, as it is; a pass of the cutoff
\* sweep leaves every record not dated today as it is; and a pass that
\* closes no record of its student changes no stored document.
SweepsTouchOnlyWhatTheyClose ==
  [][/\ ev'.op = "backlog" =>
          \A s \in DOMAIN store : \A i \in 1..Len(store[s].hist) :
            LET r == store[s].hist[i]
            IN (r.date >= LocalMidnight(now) \/ r.leaveTime # Null) =>
                 (i <= Len(store'[s].hist) /\ store'[s].hist[i] = r)
     /\ ev'.op = "cutoff" =>
          \A s \in DOMAIN store : \A i \in 1..Len(store[s].hist) :
            LET r == store[s].hist[i]
            IN LocalDay(r.date) # LocalDay(now) =>
                 (i <= Len(store'[s].hist) /\ store'[s].hist[i] = r)
     /\ ev'.op \in {"backlog", "cutoff"} =>
          \A s \in DOMAIN store :
            (s # ev'.s \/ ev'.closed = {}) => store'[s] = store[s]]_vars

\* the backlog sweep has just closed a past record of a student whose
\* record of today is still open
SweepsTouchWitness ==
  /\ ev.op = "backlog" /\ ev.closed # {}
  /\ \E i \in 1..Len(store[ev.s].hist) :
       /\ store[ev.s].hist[i].date = LocalMidnight(now)
       /\ IsOpen(store[ev.s].hist[i])

\* C36: a pass of a sweep attempts a notification only when it has saved a
\* closure, and then the store holds the closed records; a pass that saved
\* nothing (the save threw, or there was nothing to close) leaves the store
\* as it is and attempts no notification.
NotifiedOnlyAfterSave ==
  [][(ev'.op \in SweepOps /\ ev'.s # 0) =>
       /\ wa'.stats.total > wa.stats.total =>
            /\ ev'.closed # {}
            /\ \A r \in ev'.closed : RecordDated(store'[ev'.s].hist, r.date) = r
       /\ (ev'.closed = {} /\ ev'.told = {}) => (store' = store /\ wa' = wa)]_vars

\* the save of a closure has just thrown: the student's past record is
\* still open in the store and nobody was notified
SaveFailedWitness ==
  /\ ev.op \in SweepOps /\ ev.s \in DOMAIN store
  /\ ev.failed /\ ev.closed = {} /\ ev.note = "none"
  /\ \E i \in 1..Len(store[ev.s].hist) :
       /\ Unfinished(store[ev.s].hist[i])
       /\ store[ev.s].hist[i].date < LocalMidnight(now)
  /\ \A w \in Sweeps : sweep[w].handled = {ev.s}

\* C37: the client's send is called only while the ready flag is set, and
\* after the current client has emitted disconnected or auth_failure the
\* ready flag is cleared, whoever created the client.
ReadyFlagFollowsClient ==
  [][/\ wa'.flight > wa.flight => wa.ready
     /\ (ev'.op = "event" /\ ev'.kind \in {"disconnected", "auth_failure"})
          => ~wa'.ready]_vars

\* C38: the counters add up, total = successful + failed + pending, and
\* pending is 0 whenever no call of sendTextMessage is in flight.
PendingSettles ==
  /\ wa.stats.total = wa.stats.successful + wa.stats.failed + wa.stats.pending
  /\ wa.flight = 0 => wa.stats.pending = 0

\* C39: connectDB is entered at most MAX_RETRIES times in a process; it is
\* connected only with retryCount 0, and the process has exited only after
\* MAX_RETRIES failed attempts.
AtMostMaxRetriesAttempts ==
  /\ db.attempts <= MAX_RETRIES
  /\ db.pc = "connected" => db.retryCount = 0
  /\ db.pc = "exited" => (db.attempts = MAX_RETRIES /\ db.retryCount = MAX_RETRIES - 1)

\* the process has exited after a connection that was refused three times
ThirdFailureWitness ==
  /\ db.pc = "exited" /\ db.attempts = MAX_RETRIES
  /\ validateMongoURI(db.uri)

====
